---------------------------- MODULE Spec2Model ----------------------------
(***************************************************************************)
(* A model of tauri-windows-bundle: the JSON merge-patch helper, the       *)
(* capability validator and the build command's configuration resolution.  *)
(*                                                                         *)
(* JavaScript values are tagged records, so that values of different types *)
(* can be compared: undefined, null, numbers, strings, and references to   *)
(* heap cells.  Objects and arrays live in a heap (a sequence of cells,    *)
(* the address of a cell is its index), which keeps object identity,       *)
(* aliasing and mutation visible.                                          *)
(***************************************************************************)
EXTENDS Integers, Sequences, FiniteSets, TLC

VARIABLES
    heap,       \* the JavaScript heap: Seq of object and array cells
    mTarget,    \* jsonMergePatch: the value passed as target
    mPatch,     \* jsonMergePatch: the value passed as patch
    mTargetDoc, \* the document target was deserialized from
    mPatchDoc,  \* the document patch was deserialized from
    mResult,    \* jsonMergePatch: the value returned
    mMutated,   \* the address of the cell the caller mutated afterwards, or 0
    mPc,        \* "idle" | "ready" | "returned" | "mutated"
    vConfig,    \* validateCapabilities: the CapabilitiesConfig passed
    vErrors,    \* validateCapabilities: the list returned
    vPc,        \* "idle" | "ready" | "returned"
    options,    \* build: the BuildOptions it is called with
    procEnv,    \* build: the environment variables of the process
    disk,       \* build: the project files on disk
    bPc,        \* build: the step build is at, "done" or "exited"
    tauriConfig,   \* build: the document read from tauri.conf.json
    bundleConfig,  \* build: the document read from bundle.config.json
    config,        \* build: the MergedConfig
    architectures, \* build: the architectures of the run
    archIdx,       \* build: the index of the architecture being processed
    appxDirs,      \* build: the AppxContent directories prepared so far
    manifests,     \* build: the manifest variables generated so far
    commands,      \* build: the commands run so far
    console,       \* build: the lines written to the console so far
    exitCode,      \* build: the exit code of the process, undefined while it runs
    cliVersion,    \* build: const version, the version of msixbundle-cli found
    fArgs,         \* a pure function under check: the arguments of the call
    fResult,       \* a pure function under check: the value returned
    fPc,           \* "idle" | "ready" | "returned"
    spinner,       \* the Spinner: its frameIndex, intervalId and message, or null
    timers,        \* the interval timers that are active
    lastWrite,     \* the last text written to process.stdout or process.stderr
    lastCall,      \* the last method called on the Spinner
    eArgs,         \* execWithProgress: its options and the terminal it runs in
    child,         \* execWithProgress: the events the child process emitted
    promise,       \* execWithProgress: the promise it returned
    capturedOutput, \* execWithProgress: let capturedOutput
    eConsole       \* execWithProgress: the lines written to the console

mergeVars == <<heap, mTarget, mPatch, mTargetDoc, mPatchDoc, mResult, mMutated, mPc>>

capsVars == <<vConfig, vErrors, vPc>>

buildVars ==
    <<options, procEnv, disk, bPc, tauriConfig, bundleConfig, config, architectures,
      archIdx, appxDirs, manifests, commands, console, exitCode, cliVersion>>

callVars == <<fArgs, fResult, fPc>>

procVars ==
    <<spinner, timers, lastWrite, lastCall, eArgs, child, promise, capturedOutput,
      eConsole>>

vars == <<mergeVars, capsVars, buildVars, callVars, procVars>>

---------------------------------------------------------------------------
(* JavaScript values and JSON documents *)

Undef == [t |-> "undef"]
Null == [t |-> "null"]
Num(n) == [t |-> "num", n |-> n]
Str(s) == [t |-> "str", s |-> s]
Ref(r) == [t |-> "ref", r |-> r]

\* Documents are the values JSON.parse can produce, as pure (heap-free) terms.
Arr(a) == [t |-> "arr", a |-> a]
Obj(o) == [t |-> "obj", o |-> o]
Bool(b) == [t |-> "bool", b |-> b]

EmptyFn == [k \in {} |-> Null]

\* Heap cells.
ObjCell(o) == [t |-> "obj", o |-> o]
ArrCell(a) == [t |-> "arr", a |-> a]

\* o with key k removed: delete o[k].
Remove(o, k) == [x \in (DOMAIN o) \ {k} |-> o[x]]

\* o with key k set to v: o[k] = v.
Put(o, k, v) == [x \in (DOMAIN o) \cup {k} |-> IF x = k THEN v ELSE o[x]]

\* o[k], undefined when o has no own property k.
Get(o, k) == IF k \in DOMAIN o THEN o[k] ELSE Undef

---------------------------------------------------------------------------
(* Strings *)

\* s.charAt(i - 1), as a string of one character.
Char(s, i) == SubSeq(s, i, i)

RECURSIVE SplitFrom(_, _, _, _, _)
\* s.split(sep) for a separator of one character.
SplitFrom(s, sep, i, cur, acc) ==
    IF i > Len(s) THEN Append(acc, cur)
    ELSE IF Char(s, i) = sep THEN SplitFrom(s, sep, i + 1, "", Append(acc, cur))
         ELSE SplitFrom(s, sep, i + 1, cur \o Char(s, i), acc)

Split(s, sep) == SplitFrom(s, sep, 1, "", <<>>)

RECURSIVE Join(_, _)
\* parts.join(sep)
Join(parts, sep) ==
    IF Len(parts) = 0 THEN ""
    ELSE IF Len(parts) = 1 THEN parts[1]
         ELSE parts[1] \o sep \o Join(Tail(parts), sep)

IsWhitespace(c) == c \in {" ", "\t", "\n", "\r"}

RECURSIVE StripWhitespace(_)
\* s.replace(/\s+/g, '')
StripWhitespace(s) ==
    IF Len(s) = 0 THEN ""
    ELSE IF IsWhitespace(Char(s, 1)) THEN StripWhitespace(SubSeq(s, 2, Len(s)))
         ELSE Char(s, 1) \o StripWhitespace(SubSeq(s, 2, Len(s)))

RECURSIVE Trim(_)
\* s.trim()
Trim(s) ==
    IF Len(s) = 0 THEN ""
    ELSE IF IsWhitespace(Char(s, 1)) THEN Trim(SubSeq(s, 2, Len(s)))
         ELSE IF IsWhitespace(Char(s, Len(s))) THEN Trim(SubSeq(s, 1, Len(s) - 1))
              ELSE s

Digits == "0123456789"

IsDigit(c) == \E i \in 1..Len(Digits) : Char(Digits, i) = c

NaN == [t |-> "nan"]

RECURSIVE ParseDigits(_, _, _)
ParseDigits(s, i, acc) ==
    LET DigitValue(c) == (CHOOSE k \in 1..Len(Digits) : Char(Digits, k) = c) - 1
    IN IF i <= Len(s) /\ IsDigit(Char(s, i))
       THEN ParseDigits(s, i + 1, acc * 10 + DigitValue(Char(s, i)))
       ELSE acc

\* parseInt(s, 10) of an unsigned string: the value of the leading digits,
\* NaN when s does not start with a digit.
parseInt(s) ==
    IF Len(s) > 0 /\ IsDigit(Char(s, 1)) THEN Num(ParseDigits(s, 1, 0)) ELSE NaN

\* The JavaScript comparisons a > b, a < b and a >= b of values that are
\* numbers, NaN or undefined: false unless both are numbers.
Gt(a, b) == a.t = "num" /\ b.t = "num" /\ a.n > b.n
Lt(a, b) == a.t = "num" /\ b.t = "num" /\ a.n < b.n
Ge(a, b) == a.t = "num" /\ b.t = "num" /\ a.n >= b.n

\* Truthiness of a value.
Truthy(v) ==
    CASE v.t = "undef" -> FALSE
      [] v.t = "null" -> FALSE
      [] v.t = "nan" -> FALSE
      [] v.t = "str" -> v.s # ""
      [] v.t = "num" -> v.n # 0
      [] v.t = "bool" -> v.b
      [] OTHER -> TRUE

\* a || b
Or(a, b) == IF Truthy(a) THEN a ELSE b

\* d?.k on a document: undefined when d is undefined or has no key k.
Field(d, k) == IF d.t = "obj" /\ k \in DOMAIN d.o THEN d.o[k] ELSE Undef

---------------------------------------------------------------------------
(* Bounds of the document universe *)

MaxTargetNodes == 4
MaxPatchNodes == 3

Keys == {"a", "b"}
Scalars == {Num(1), Num(2)}

RECURSIVE SumSizes(_, _, _)
RECURSIVE DocSize(_)
\* The number of nodes of a document: one per scalar, null, array element,
\* array and object.
DocSize(d) ==
    CASE d.t = "obj" -> 1 + SumSizes(d.o, DOMAIN d.o, 0)
      [] d.t = "arr" -> 1 + Len(d.a)
      [] OTHER -> 1

SumSizes(o, ks, acc) ==
    IF ks = {} THEN acc
    ELSE LET k == CHOOSE x \in ks : TRUE
         IN SumSizes(o, ks \ {k}, acc + DocSize(o[k]))

RECURSIVE DocsUpTo(_)
\* Every document of at most n nodes over Keys and Scalars; array elements
\* are scalars.
DocsUpTo(n) ==
    IF n <= 0 THEN {}
    ELSE LET sub == DocsUpTo(n - 1)
             arrs == {Arr(s) : s \in UNION {[1..l -> Scalars] : l \in 0..(n - 1)}}
             objs == {Obj(f) : f \in UNION {[K -> sub] : K \in SUBSET Keys}}
         IN {Null} \cup Scalars \cup arrs \cup {d \in objs : DocSize(d) <= n}

TargetDocs == DocsUpTo(MaxTargetNodes)
PatchDocs == DocsUpTo(MaxPatchNodes)

---------------------------------------------------------------------------
(* Deserialization: a document becomes heap cells *)

RECURSIVE Alloc(_, _)
RECURSIVE AllocEntries(_, _, _, _)
RECURSIVE AllocItems(_, _, _, _)

\* JSON.parse: every object and array of the document is a fresh cell.
\* Returns the new heap and the value (a scalar, or a reference to the root).
Alloc(h, d) ==
    CASE d.t = "obj" ->
            LET r == AllocEntries(h, d.o, DOMAIN d.o, EmptyFn)
            IN [h |-> Append(r.h, ObjCell(r.o)), v |-> Ref(Len(r.h) + 1)]
      [] d.t = "arr" ->
            LET r == AllocItems(h, d.a, 1, <<>>)
            IN [h |-> Append(r.h, ArrCell(r.a)), v |-> Ref(Len(r.h) + 1)]
      [] OTHER -> [h |-> h, v |-> d]

AllocEntries(h, o, ks, acc) ==
    IF ks = {} THEN [h |-> h, o |-> acc]
    ELSE LET k == CHOOSE x \in ks : TRUE
             r == Alloc(h, o[k])
         IN AllocEntries(r.h, o, ks \ {k}, Put(acc, k, r.v))

AllocItems(h, a, i, acc) ==
    IF i > Len(a) THEN [h |-> h, a |-> acc]
    ELSE LET r == Alloc(h, a[i])
         IN AllocItems(r.h, a, i + 1, Append(acc, r.v))

RECURSIVE Deref(_, _)
\* The document a value denotes in heap h (deep value, as toEqual compares).
Deref(h, v) ==
    IF v.t # "ref" THEN v
    ELSE IF h[v.r].t = "obj"
         THEN Obj([k \in DOMAIN h[v.r].o |-> Deref(h, h[v.r].o[k])])
         ELSE Arr([i \in DOMAIN h[v.r].a |-> Deref(h, h[v.r].a[i])])

RECURSIVE ReachFrom(_, _, _)
\* The addresses of the cells reachable from the values in frontier.
ReachFrom(h, frontier, seen) ==
    LET refs == {v.r : v \in {x \in frontier : x.t = "ref"}} \ seen
    IN IF refs = {} THEN seen
       ELSE LET next == UNION {IF h[r].t = "obj"
                                 THEN {h[r].o[k] : k \in DOMAIN h[r].o}
                                 ELSE {h[r].a[i] : i \in DOMAIN h[r].a} : r \in refs}
            IN ReachFrom(h, next, seen \cup refs)

Reach(h, v) == ReachFrom(h, {v}, {})

---------------------------------------------------------------------------
(* jsonMergePatch *)

\* isObject(val): not null, typeof 'object', not an array.
isObject(h, val) == val.t = "ref" /\ h[val.r].t = "obj"

RECURSIVE jsonMergePatch(_, _, _)
RECURSIVE MergeEntries(_, _, _, _)

\* Mutant: an array in the patch is merged element by element into an array
\* target instead of replacing it.
jsonMergePatchArrayMerge(h, target, patch) ==
    IF ~isObject(h, patch)
    THEN IF patch.t = "ref" /\ target.t = "ref" /\ h[target.r].t = "arr"
         THEN LET pa == h[patch.r].a
                  ta == h[target.r].a
                  n == IF Len(pa) > Len(ta) THEN Len(pa) ELSE Len(ta)
              IN [h |-> Append(h, ArrCell([i \in 1..n |->
                                     IF i <= Len(pa) THEN pa[i] ELSE ta[i]])),
                  v |-> Ref(Len(h) + 1)]
         ELSE [h |-> h, v |-> patch]
    ELSE LET copy == IF isObject(h, target) THEN ObjCell(h[target.r].o)
                     ELSE ObjCell(EmptyFn)
             result == Len(h) + 1
             h1 == Append(h, copy)
         IN [h |-> MergeEntries(h1, result, h1[patch.r].o, DOMAIN h1[patch.r].o),
             v |-> Ref(result)]

\* Mutant: the result always starts from an empty object; target is not copied.
jsonMergePatchNoCopy(h, target, patch) ==
    IF ~isObject(h, patch) THEN [h |-> h, v |-> patch]
    ELSE LET result == Len(h) + 1
             h1 == Append(h, ObjCell(EmptyFn))
         IN [h |-> MergeEntries(h1, result, h1[patch.r].o, DOMAIN h1[patch.r].o),
             v |-> Ref(result)]

\* Mutant: an object target is patched in place instead of being copied.
jsonMergePatchInPlace(h, target, patch) ==
    IF ~isObject(h, patch) THEN [h |-> h, v |-> patch]
    ELSE IF isObject(h, target)
         THEN [h |-> MergeEntries(h, target.r, h[patch.r].o, DOMAIN h[patch.r].o),
               v |-> target]
         ELSE LET result == Len(h) + 1
                  h1 == Append(h, ObjCell(EmptyFn))
              IN [h |-> MergeEntries(h1, result, h1[patch.r].o, DOMAIN h1[patch.r].o),
                  v |-> Ref(result)]

\* jsonMergePatch(target, patch) run on heap h: the heap after the call and
\* the value returned.
jsonMergePatch(h, target, patch) ==
    IF ~isObject(h, patch) THEN [h |-> h, v |-> patch]
    ELSE LET copy == IF isObject(h, target) THEN ObjCell(h[target.r].o)
                     ELSE ObjCell(EmptyFn)
             result == Len(h) + 1
             h1 == Append(h, copy)
         IN [h |-> MergeEntries(h1, result, h1[patch.r].o, DOMAIN h1[patch.r].o),
             v |-> Ref(result)]

RECURSIVE MergeEntriesShallow(_, _, _, _)
\* Mutant: a non-null patch value is assigned as it is, without the recursive
\* merge into the value the result already holds.
MergeEntriesShallow(h, result, entries, ks) ==
    IF ks = {} THEN h
    ELSE LET key == CHOOSE x \in ks : TRUE
             value == entries[key]
             h2 == IF value = Null
                   THEN [h EXCEPT ![result] = ObjCell(Remove(h[result].o, key))]
                   ELSE [h EXCEPT ![result] = ObjCell(Put(h[result].o, key, value))]
         IN MergeEntriesShallow(h2, result, entries, ks \ {key})

RECURSIVE MergeEntriesKeepNull(_, _, _, _)
\* Mutant: a null patch value is stored under the key instead of deleting it.
MergeEntriesKeepNull(h, result, entries, ks) ==
    IF ks = {} THEN h
    ELSE LET key == CHOOSE x \in ks : TRUE
             value == entries[key]
             h2 == IF value = Null
                   THEN [h EXCEPT ![result] = ObjCell(Put(h[result].o, key, Null))]
                   ELSE LET r == jsonMergePatch(h, Get(h[result].o, key), value)
                        IN [r.h EXCEPT ![result] = ObjCell(Put(r.h[result].o, key, r.v))]
         IN MergeEntriesKeepNull(h2, result, entries, ks \ {key})

\* The loop over Object.entries(patch), for the entries whose keys are in ks.
MergeEntries(h, result, entries, ks) ==
    IF ks = {} THEN h
    ELSE LET key == CHOOSE x \in ks : TRUE
             value == entries[key]
             h2 == IF value = Null
                   THEN [h EXCEPT ![result] = ObjCell(Remove(h[result].o, key))]
                   ELSE LET r == jsonMergePatch(h, Get(h[result].o, key), value)
                        IN [r.h EXCEPT ![result] = ObjCell(Put(r.h[result].o, key, r.v))]
         IN MergeEntries(h2, result, entries, ks \ {key})

---------------------------------------------------------------------------
(* Capabilities *)

GENERAL_CAPABILITIES ==
    <<"internetClient", "internetClientServer", "privateNetworkClientServer",
      "allJoyn", "codeGeneration">>

DEVICE_CAPABILITIES ==
    <<"webcam", "microphone", "location", "proximity", "bluetooth",
      "serialcommunication", "usb", "humaninterfacedevice", "pointOfService",
      "lowLevelDevices", "gazeInput", "radios">>

RESTRICTED_CAPABILITIES ==
    <<"broadFileSystemAccess", "allowElevation", "appCaptureSettings",
      "appDiagnostics", "backgroundSpatialPerception", "deviceUnlock",
      "expandedResources", "extendedBackgroundTaskTime",
      "extendedExecutionBackgroundAudio", "extendedExecutionCritical",
      "extendedExecutionUnconstrained", "inputForegroundObservation",
      "locationHistory", "locationSystem", "networkingVpnProvider",
      "packageManagement", "packageQuery", "previewStore", "systemManagement",
      "unvirtualizedResources", "userSystemId">>

\* DEFAULT_CAPABILITIES = { general: ['internetClient'] }
DEFAULT_CAPABILITIES == Obj([k \in {"general"} |-> Arr(<<Str("internetClient")>>)])

\* list.includes(cap)
Includes(list, cap) == \E i \in DOMAIN list : list[i] = cap

\* The message validateCapabilities pushes for token cap declared under a
\* category: `Invalid <category> capability: "<cap>". Valid: <valid list>`.
InvalidCapability(category, cap, valid) ==
    [category |-> category, cap |-> cap, valid |-> valid]

\* Mutant: the loop stops at the first invalid token.
CheckListFirstOnly(category, list, valid, i, errors) ==
    LET bad == {j \in i..Len(list) : ~Includes(valid, list[j].s)}
    IN IF bad = {} THEN errors
       ELSE LET j == CHOOSE x \in bad : \A y \in bad : x <= y
            IN Append(errors, InvalidCapability(category, list[j].s, valid))

RECURSIVE CheckList(_, _, _, _, _)
\* One for-loop of validateCapabilities: for (const cap of list), from index i,
\* pushing onto errors.
CheckList(category, list, valid, i, errors) ==
    IF i > Len(list) THEN errors
    ELSE CheckList(category, list, valid, i + 1,
                   IF ~Includes(valid, list[i].s)
                   THEN Append(errors, InvalidCapability(category, list[i].s, valid))
                   ELSE errors)

\* Mutant: every token is checked against the union of the three whitelists.
CheckCategoryAnyList(caps, category, valid, errors) ==
    IF category \in DOMAIN caps.o
    THEN CheckList(category, caps.o[category].a,
                   GENERAL_CAPABILITIES \o DEVICE_CAPABILITIES \o RESTRICTED_CAPABILITIES,
                   1, errors)
    ELSE errors

\* if (caps.<category>) { for (const cap of caps.<category>) ... }
CheckCategory(caps, category, valid, errors) ==
    IF category \in DOMAIN caps.o
    THEN CheckList(category, caps.o[category].a, valid, 1, errors)
    ELSE errors

\* validateCapabilities(caps): the list of error messages.
validateCapabilities(caps) ==
    LET e1 == CheckCategory(caps, "general", GENERAL_CAPABILITIES, <<>>)
        e2 == CheckCategory(caps, "device", DEVICE_CAPABILITIES, e1)
    IN CheckCategory(caps, "restricted", RESTRICTED_CAPABILITIES, e2)

\* Bounds and inputs of the capability validator.
MaxDeclared == 3

\* Declared tokens: one valid token of each whitelist, the implicit
\* full-trust token and a token of no whitelist.
Tokens == {"internetClient", "webcam", "broadFileSystemAccess", "runFullTrust", "bad1"}

\* A category of a CapabilitiesConfig: absent, or a list of at most n tokens.
OptionalLists(n) ==
    {[present |-> FALSE, list |-> <<>>]}
        \cup {[present |-> TRUE, list |-> l] :
                  l \in UNION {[1..k -> Tokens] : k \in 0..n}}

\* The CapabilitiesConfig document with the categories that are present.
CapabilitiesDoc(general, device, restricted) ==
    LET m == [general |-> general, device |-> device, restricted |-> restricted]
    IN Obj([k \in {c \in {"general", "device", "restricted"} : m[c].present} |->
                Arr([i \in DOMAIN m[k].list |-> Str(m[k].list[i])])])

---------------------------------------------------------------------------
(* The build command: pure parts *)

DEFAULT_MIN_WINDOWS_VERSION == "10.0.17763.0"
MIN_MSIXBUNDLE_CLI_VERSION == "1.1.4"

\* toFourPartVersion(version)
RECURSIVE PadParts(_)
PadParts(parts) == IF Len(parts) < 4 THEN PadParts(Append(parts, "0")) ELSE parts

\* Mutant: the segments beyond the fourth are kept.
toFourPartVersionNoSlice(version) == Join(PadParts(Split(version, ".")), ".")

toFourPartVersion(version) == Join(SubSeq(PadParts(Split(version, ".")), 1, 4), ".")

\* v.split('.').map((n) => parseInt(n, 10))
ParseVersion(v) == LET parts == Split(v, ".") IN [i \in DOMAIN parts |-> parseInt(parts[i])]

\* a[i - 1] of an array, undefined beyond its end.
At(a, i) == IF i \in DOMAIN a THEN a[i] ELSE Undef

\* Mutant: a smaller major version does not decide.
isVersionSufficientNoMajorCheck(version, minVersion) ==
    LET v == ParseVersion(version)
        m == ParseVersion(minVersion)
    IN IF Gt(At(v, 1), At(m, 1)) THEN TRUE
       ELSE IF Gt(At(v, 2), At(m, 2)) THEN TRUE
       ELSE IF Lt(At(v, 2), At(m, 2)) THEN FALSE
       ELSE Ge(At(v, 3), At(m, 3))

isVersionSufficient(version, minVersion) ==
    LET v == ParseVersion(version)
        m == ParseVersion(minVersion)
        major == At(v, 1)
        minor == At(v, 2)
        patch == At(v, 3)
        minMajor == At(m, 1)
        minMinor == At(m, 2)
        minPatch == At(m, 3)
    IN IF Gt(major, minMajor) THEN TRUE
       ELSE IF Lt(major, minMajor) THEN FALSE
       ELSE IF Gt(minor, minMinor) THEN TRUE
       ELSE IF Lt(minor, minMinor) THEN FALSE
       ELSE Ge(patch, minPatch)

RECURSIVE DigitsEnd(_, _)
\* The index after the longest run of digits of s that starts at i.
DigitsEnd(s, i) ==
    IF i <= Len(s) /\ IsDigit(Char(s, i)) THEN DigitsEnd(s, i + 1) ELSE i

\* The index after a match of /\d+\.\d+\.\d+/ that starts at i, 0 if none.
VersionMatchAt(s, i) ==
    LET a == DigitsEnd(s, i)
        b == DigitsEnd(s, a + 1)
        c == DigitsEnd(s, b + 1)
    IN IF /\ a > i /\ a <= Len(s) /\ Char(s, a) = "."
          /\ b > a + 1 /\ b <= Len(s) /\ Char(s, b) = "."
          /\ c > b + 1
       THEN c ELSE 0

\* getMsixbundleCliVersion on the output of `msixbundle-cli --version`:
\* the first match of /(\d+\.\d+\.\d+)/ in the trimmed output, else null.
\* A failed command is the output Null.
getMsixbundleCliVersion(stdout) ==
    IF stdout = Null THEN Null
    ELSE LET s == Trim(stdout.s)
             starts == {i \in 1..Len(s) : VersionMatchAt(s, i) > 0}
         IN IF starts = {} THEN Null
            ELSE LET i == CHOOSE x \in starts : \A y \in starts : x <= y
                 IN Str(SubSeq(s, i, VersionMatchAt(s, i) - 1))

\* answer.toLowerCase() === 'y'
promptInstall(answer) == answer \in {"y", "Y"}

\* path.join of segments that need no normalisation.
PathJoin(parts) == Join(parts, "/")

ProjectRoot == "/project"

\* getWindowsDir(projectRoot)
getWindowsDir(projectRoot) == PathJoin(<<projectRoot, "src-tauri", "gen", "windows">>)

\* The render of one error of validateCapabilities.
ErrorText(e) ==
    "Invalid " \o e.category \o " capability: \"" \o e.cap \o "\". Valid: "
        \o Join(e.valid, ", ")

\* The MergedConfig of build: four fields resolved from tauri.conf.json, then
\* every key of bundle.config.json spread over them.
MergeConfig(tauriConfig_, bundleConfig_) ==
    LET \* { ...base, ...over } on documents.
        Spread(base, over) ==
            Obj([k \in (DOMAIN base.o) \cup (DOMAIN over.o) |->
                    IF k \in DOMAIN over.o THEN over.o[k] ELSE base.o[k]])
    IN Spread(
        Obj([displayName |-> Or(Field(tauriConfig_, "productName"), Str("App")),
             version |-> Str(toFourPartVersion(
                                Or(Field(tauriConfig_, "version"), Str("1.0.0")).s)),
             description |-> Or(Field(Field(tauriConfig_, "bundle"), "shortDescription"),
                                Str("")),
             identifier |-> Or(Field(tauriConfig_, "identifier"),
                               Str("com.example.app"))]),
        bundleConfig_)

\* options.arch?.split(',') || ['x64']
Architectures(opts) ==
    IF opts.arch \in {Undef, Null} THEN <<"x64">> ELSE Split(opts.arch.s, ",")

\* The Tauri build command of one architecture.
BuildCommand(opts, arch) ==
    LET target == IF arch = "x64" THEN "x86_64-pc-windows-msvc"
                  ELSE "aarch64-pc-windows-msvc"
        debugFlag == IF opts.debug THEN "--debug" ELSE ""
        DEFAULT_RUNNER == "cargo"
        runner == Or(opts.runner, Str(DEFAULT_RUNNER)).s
    IN IF runner = "npm"
       THEN Trim("npm run tauri build -- --target " \o target \o " --no-bundle "
                     \o debugFlag)
       ELSE Trim(runner \o " tauri build --target " \o target \o " --no-bundle "
                     \o debugFlag)

RECURSIVE CapabilityLines(_, _, _, _)
\* for (const cap of list) caps.push(`    <tag Name="${cap}" />`), from index i.
CapabilityLines(tag, list, i, caps) ==
    IF i > Len(list) THEN caps
    ELSE CapabilityLines(tag, list, i + 1,
             Append(caps, "    <" \o tag \o " Name=\"" \o list[i].s \o "\" />"))

\* A generateCapabilities that renders the device group before the general
\* group.
generateCapabilitiesDeviceFirst(caps) ==
    LET c0 == <<"    <rescap:Capability Name=\"runFullTrust\" />">>
        c1 == IF Truthy(Field(caps, "device"))
              THEN CapabilityLines("DeviceCapability", caps.o["device"].a, 1, c0) ELSE c0
        c2 == IF Truthy(Field(caps, "general"))
              THEN CapabilityLines("Capability", caps.o["general"].a, 1, c1) ELSE c1
        c3 == IF Truthy(Field(caps, "restricted"))
              THEN CapabilityLines("rescap:Capability", caps.o["restricted"].a, 1, c2)
              ELSE c2
    IN Join(c3, "\n")

\* generateCapabilities(config)
generateCapabilities(caps) ==
    LET c0 == <<"    <rescap:Capability Name=\"runFullTrust\" />">>
        c1 == IF Truthy(Field(caps, "general"))
              THEN CapabilityLines("Capability", caps.o["general"].a, 1, c0) ELSE c0
        c2 == IF Truthy(Field(caps, "device"))
              THEN CapabilityLines("DeviceCapability", caps.o["device"].a, 1, c1) ELSE c1
        c3 == IF Truthy(Field(caps, "restricted"))
              THEN CapabilityLines("rescap:Capability", caps.o["restricted"].a, 1, c2)
              ELSE c2
    IN Join(c3, "\n")

---------------------------------------------------------------------------
(* generateClsid.  A 32-bit integer is kept as two 16-bit halves, so that   *)
(* the wrap of << and & and the exact products hash * 31, hash * 37 and     *)
(* hash * 41 are computed as the code computes them.                        *)

Word == 65536

\* The characters with char codes 32 to 95, in char code order.
AsciiUpper ==
    " !\"#$%&'()*+,-./0123456789:;<=>?@ABCDEFGHIJKLMNOPQRSTUVWXYZ[\\]^_"

\* seed.charCodeAt(i)
charCodeAt(seed, i) ==
    LET \* The characters with char codes 97 to 126.
        AsciiLower == "abcdefghijklmnopqrstuvwxyz{|}~"
    IN
    IF \E k \in 1..Len(AsciiUpper) : Char(AsciiUpper, k) = Char(seed, i)
    THEN 31 + (CHOOSE k \in 1..Len(AsciiUpper) : Char(AsciiUpper, k) = Char(seed, i))
    ELSE 96 + (CHOOSE k \in 1..Len(AsciiLower) : Char(AsciiLower, k) = Char(seed, i))

\* The 32-bit integer with the given bits.
Int32(hi, lo) == [hi |-> hi % Word, lo |-> lo % Word]

RECURSIVE HashFrom(_, _, _)
\* for (let i = 0; i < seed.length; i++) { ... }, from index i (1-based);
\* hash is a 32-bit integer at every iteration.
HashFrom(seed, i, hash) ==
    LET \* hash << 5
        ShiftLeft5(h) == Int32(h.hi * 32 + (h.lo * 32) \div Word, h.lo * 32)
        \* a - b, then ToInt32
        Minus(a, b) ==
            LET borrow == IF a.lo < b.lo THEN 1 ELSE 0
            IN Int32(a.hi - b.hi - borrow + Word, a.lo - b.lo + Word)
        \* a + char, then ToInt32
        Plus(a, char) == Int32(a.hi + (a.lo + char) \div Word, a.lo + char)
    IN IF i > Len(seed) \/ hash.hi >= Word THEN hash
       ELSE HashFrom(seed, i + 1,
                     Plus(Minus(ShiftLeft5(hash), hash), charCodeAt(seed, i)))

\* Math.abs(hash * factor): a non-negative number, not limited to 32 bits,
\* as its high part and its low 16 bits.
AbsTimes(hash, factor) ==
    LET negative == hash.hi >= Word \div 2
        lo == IF negative THEN (Word - hash.lo) % Word ELSE hash.lo
        hi == IF negative THEN Word - hash.hi - (IF hash.lo = 0 THEN 0 ELSE 1)
              ELSE hash.hi
    IN [hi |-> hi * factor + (lo * factor) \div Word, lo |-> (lo * factor) % Word]

RECURSIVE Hex(_)
\* n.toString(16) of a non-negative integer.
Hex(n) ==
    IF n < 16 THEN Char("0123456789abcdef", n + 1)
    ELSE Hex(n \div 16) \o Char("0123456789abcdef", (n % 16) + 1)

RECURSIVE padStart(_, _, _)
\* s.padStart(n, fill) for a fill of one character.
padStart(str, n, fill) == IF Len(str) >= n THEN str ELSE padStart(fill \o str, n, fill)

\* number.toString(16) of a number kept in two parts.
toString16(number) ==
    IF number.hi = 0 THEN Hex(number.lo)
    ELSE Hex(number.hi) \o padStart(Hex(number.lo), 4, "0")

\* s.slice(first, last) for 0 <= first <= last.
slice(str, first, last) ==
    SubSeq(str, first + 1, IF last < Len(str) THEN last ELSE Len(str))

RECURSIVE toUpperCase(_)
\* s.toUpperCase()
toUpperCase(str) ==
    IF str = "" THEN ""
    ELSE LET c == Char(str, 1)
             code == charCodeAt(str, 1)
         IN (IF code >= 97 /\ code <= 122 THEN Char(AsciiUpper, code - 32 - 31) ELSE c)
                \o toUpperCase(SubSeq(str, 2, Len(str)))

\* A generateClsid that does not pad its hexadecimal numbers.
generateClsidNoPad(seed) ==
    LET hash == HashFrom(seed, 1, Int32(0, 0))
        hex == toString16(AbsTimes(hash, 1))
        hex2 == toString16(AbsTimes(hash, 31))
        hex3 == toString16(AbsTimes(hash, 37))
        hex4 == toString16(AbsTimes(hash, 41))
    IN toUpperCase("{" \o slice(hex, 0, 8) \o "-" \o slice(hex2, 0, 4) \o "-"
                       \o slice(hex2, 4, 8) \o "-" \o slice(hex3, 0, 4) \o "-"
                       \o slice(hex4, 0, 12) \o "}")

\* generateClsid(seed)
generateClsid(seed) ==
    LET hash == HashFrom(seed, 1, Int32(0, 0))
        hex == padStart(toString16(AbsTimes(hash, 1)), 8, "0")
        hex2 == padStart(toString16(AbsTimes(hash, 31)), 8, "0")
        hex3 == padStart(toString16(AbsTimes(hash, 37)), 8, "0")
        hex4 == padStart(toString16(AbsTimes(hash, 41)), 12, "0")
    IN toUpperCase("{" \o slice(hex, 0, 8) \o "-" \o slice(hex2, 0, 4) \o "-"
                       \o slice(hex2, 4, 8) \o "-" \o slice(hex3, 0, 4) \o "-"
                       \o slice(hex4, 0, 12) \o "}")

---------------------------------------------------------------------------
(* generateExtensions.  A fragment is a template of the extensions          *)
(* directory, named, with the variables replaceTemplateVariables is given.  *)

\* replaceTemplateVariables(getExtensionTemplate(name), variables).trimEnd()
Fragment(name, variables) == [template |-> name, variables |-> variables]

\* A Flatten that keeps the pushes of the first iteration only.
FlattenFirstOnly(lists) == IF Len(lists) = 0 THEN <<>> ELSE Head(lists)

RECURSIVE Flatten(_)
\* for (const entry of list) { ... }: the pushes of every iteration, one
\* after the other.
Flatten(lists) ==
    IF Len(lists) = 0 THEN <<>> ELSE Head(lists) \o Flatten(Tail(lists))

\* list.map((ext) => `${open}${ext}${close}`).join('\n')
FileTypes(open, list, close) ==
    Join([i \in 1..Len(list) |-> open \o list[i].s \o close], "\n")

RECURSIVE StripBraces(_)
\* clsid.replace(/[{}]/g, '')
StripBraces(str) ==
    IF Len(str) = 0 THEN ""
    ELSE IF Char(str, 1) \in {"{", "}"} THEN StripBraces(SubSeq(str, 2, Len(str)))
         ELSE Char(str, 1) \o StripBraces(SubSeq(str, 2, Len(str)))

\* The fragments of one autoplay handler, device event first.
AutoplayFragmentsDeviceFirst(handler) ==
    (IF Truthy(Field(handler, "deviceEvent"))
     THEN <<Fragment("autoplay-device",
                     [VERB |-> Field(handler, "verb"),
                      ACTION_DISPLAY_NAME |-> Field(handler, "actionDisplayName"),
                      DEVICE_EVENT |-> Field(handler, "deviceEvent")])>>
     ELSE <<>>)
    \o
    (IF Truthy(Field(handler, "contentEvent"))
     THEN <<Fragment("autoplay",
                     [VERB |-> Field(handler, "verb"),
                      ACTION_DISPLAY_NAME |-> Field(handler, "actionDisplayName"),
                      CONTENT_EVENT |-> Field(handler, "contentEvent")])>>
     ELSE <<>>)

\* The fragments of one autoplay handler.
AutoplayFragments(handler) ==
    (IF Truthy(Field(handler, "contentEvent"))
     THEN <<Fragment("autoplay",
                     [VERB |-> Field(handler, "verb"),
                      ACTION_DISPLAY_NAME |-> Field(handler, "actionDisplayName"),
                      CONTENT_EVENT |-> Field(handler, "contentEvent")])>>
     ELSE <<>>)
    \o
    (IF Truthy(Field(handler, "deviceEvent"))
     THEN <<Fragment("autoplay-device",
                     [VERB |-> Field(handler, "verb"),
                      ACTION_DISPLAY_NAME |-> Field(handler, "actionDisplayName"),
                      DEVICE_EVENT |-> Field(handler, "deviceEvent")])>>
     ELSE <<>>)

\* The extensions array of generateExtensions before it returns.
ExtensionFragments(config_) ==
    LET ext == Field(config_, "extensions")
        Each(key, Op(_)) ==
            IF Truthy(Field(ext, key))
            THEN Flatten([i \in 1..Len(Field(ext, key).a) |-> Op(Field(ext, key).a[i])])
            ELSE <<>>
        uap(list) == Str(FileTypes("          <uap:FileType>", list.a, "</uap:FileType>"))
        slug(handler) == slice(StripBraces(Field(handler, "clsid").s), 0, 8)
        executable == StripWhitespace(Field(config_, "displayName").s) \o ".exe"
        \* alias.endsWith('.exe') ? alias : `${alias}.exe`
        WithExe(alias) ==
            IF Len(alias) >= 4 /\ SubSeq(alias, Len(alias) - 3, Len(alias)) = ".exe"
            THEN alias ELSE alias \o ".exe"
    IN (IF Truthy(Field(ext, "shareTarget"))
        THEN <<Fragment("share-target", EmptyFn)>> ELSE <<>>)
       \o Each("fileAssociations", LAMBDA assoc :
              <<Fragment("file-association",
                         [NAME |-> Field(assoc, "name"),
                          FILE_TYPES |-> uap(Field(assoc, "extensions"))])>>)
       \o Each("protocolHandlers", LAMBDA handler :
              <<Fragment("protocol",
                         [NAME |-> Field(handler, "name"),
                          DISPLAY_NAME |-> Or(Field(handler, "displayName"),
                                              Field(handler, "name"))])>>)
       \o (IF Truthy(Field(Field(ext, "startupTask"), "enabled"))
           THEN <<Fragment("startup-task",
                           [TASK_ID |-> Or(Field(Field(ext, "startupTask"), "taskId"),
                                           Str("StartupTask")),
                            DISPLAY_NAME |-> Field(config_, "displayName")])>>
           ELSE <<>>)
       \o Each("contextMenus", LAMBDA menu :
              <<Fragment("context-menu",
                         [NAME |-> Field(menu, "name"),
                          FILE_TYPES |->
                              Str(FileTypes("            <desktop:FileType>",
                                            Field(menu, "fileTypes").a,
                                            "</desktop:FileType>"))])>>)
       \o Each("backgroundTasks", LAMBDA task :
              <<Fragment("background-task",
                         [ENTRY_POINT |-> Field(task, "name"),
                          TRIGGER_TYPE |->
                              IF Field(task, "type") = Str("timer") THEN Str("TimeTrigger")
                              ELSE IF Field(task, "type") = Str("systemEvent")
                                   THEN Str("SystemTrigger")
                                   ELSE Str("PushNotificationTrigger")])>>)
       \o Each("appExecutionAliases", LAMBDA alias :
              <<Fragment("app-execution-alias",
                         [ALIAS |-> Str(WithExe(Field(alias, "alias").s)),
                          EXECUTABLE |-> Str(executable)])>>)
       \o Each("appServices", LAMBDA service :
              <<Fragment("app-service", [NAME |-> Field(service, "name")])>>)
       \o (IF Truthy(Field(ext, "toastActivation"))
           THEN <<Fragment("toast-activation",
                           [CLSID |-> Str(generateClsid(Field(config_, "identifier").s
                                                            \o ".toast"))])>>
           ELSE <<>>)
       \o Each("autoplayHandlers", AutoplayFragments)
       \o (IF Truthy(Field(ext, "printTaskSettings"))
           THEN <<Fragment("print-task-settings", EmptyFn)>> ELSE <<>>)
       \o Each("thumbnailHandlers", LAMBDA handler :
              <<Fragment("thumbnail-handler",
                         [NAME |-> Str("thumbnail-" \o slug(handler)),
                          FILE_TYPES |-> uap(Field(handler, "fileTypes")),
                          CLSID |-> Field(handler, "clsid")])>>)
       \o Each("previewHandlers", LAMBDA handler :
              <<Fragment("preview-handler",
                         [NAME |-> Str("preview-" \o slug(handler)),
                          FILE_TYPES |-> uap(Field(handler, "fileTypes")),
                          CLSID |-> Field(handler, "clsid")])>>)

\* `      <Extensions>\n${extensions.join('\n\n')}\n      </Extensions>`
ExtensionsBlock(extensions) ==
    [t |-> "xml", open |-> "      <Extensions>", fragments |-> extensions,
     close |-> "      </Extensions>"]

\* A generateExtensions that wraps an empty list of fragments too.
generateExtensionsAlwaysWrap(config_) == ExtensionsBlock(ExtensionFragments(config_))

\* generateExtensions(config)
generateExtensions(config_) ==
    IF Len(ExtensionFragments(config_)) = 0 THEN Str("")
    ELSE ExtensionsBlock(ExtensionFragments(config_))

---------------------------------------------------------------------------
\* Mutant: the variables have no DESCRIPTION.
generateManifestNoDescription(config_, arch, minVersion) ==
    LET variables ==
            [PACKAGE_NAME |-> Field(config_, "identifier"),
             PUBLISHER |-> Field(config_, "publisher"),
             VERSION |-> Field(config_, "version"),
             ARCH |-> Str(arch),
             DISPLAY_NAME |-> Field(config_, "displayName"),
             PUBLISHER_DISPLAY_NAME |-> Field(config_, "publisherDisplayName"),
             MIN_VERSION |-> Str(minVersion),
             EXECUTABLE |-> Str(StripWhitespace(Field(config_, "displayName").s) \o ".exe"),
             DESCRIPTION |-> Undef,
             CAPABILITIES |-> Str(generateCapabilities(
                                     Or(Field(config_, "capabilities"),
                                        DEFAULT_CAPABILITIES))),
             EXTENSIONS |-> generateExtensions(config_)]
    IN [key \in DOMAIN variables \ {"DESCRIPTION"} |-> variables[key]]

\* The variables record generateManifest substitutes into the manifest
\* template.
generateManifest(config_, arch, minVersion) ==
    [PACKAGE_NAME |-> Field(config_, "identifier"),
     PUBLISHER |-> Field(config_, "publisher"),
     VERSION |-> Field(config_, "version"),
     ARCH |-> Str(arch),
     DISPLAY_NAME |-> Field(config_, "displayName"),
     PUBLISHER_DISPLAY_NAME |-> Field(config_, "publisherDisplayName"),
     MIN_VERSION |-> Str(minVersion),
     EXECUTABLE |-> Str(StripWhitespace(Field(config_, "displayName").s) \o ".exe"),
     DESCRIPTION |-> Or(Field(config_, "description"), Field(config_, "displayName")),
     CAPABILITIES |-> Str(generateCapabilities(
                             Or(Field(config_, "capabilities"), DEFAULT_CAPABILITIES))),
     EXTENSIONS |-> generateExtensions(config_)]

\* A template: the pieces of its text in order, each a literal text or a
\* placeholder {{KEY}}.  The manifest template has a placeholder for every
\* key generateManifest passes, and the template of an extension kind one for
\* every key generateExtensions passes for that kind.
Template(name) ==
    LET keys ==
            CASE name = "AppxManifest.xml.template" ->
                    <<"PACKAGE_NAME", "PUBLISHER", "VERSION", "ARCH", "DISPLAY_NAME",
                      "PUBLISHER_DISPLAY_NAME", "MIN_VERSION", "EXECUTABLE",
                      "DISPLAY_NAME", "DESCRIPTION", "EXTENSIONS", "CAPABILITIES">>
              [] name \in {"file-association", "context-menu"} -> <<"NAME", "FILE_TYPES">>
              [] name = "protocol" -> <<"NAME", "DISPLAY_NAME">>
              [] name = "startup-task" -> <<"TASK_ID", "DISPLAY_NAME">>
              [] name = "background-task" -> <<"ENTRY_POINT", "TRIGGER_TYPE">>
              [] name = "app-execution-alias" -> <<"ALIAS", "EXECUTABLE">>
              [] name = "app-service" -> <<"NAME">>
              [] name = "toast-activation" -> <<"CLSID">>
              [] name = "autoplay" -> <<"VERB", "ACTION_DISPLAY_NAME", "CONTENT_EVENT">>
              [] name = "autoplay-device" ->
                    <<"VERB", "ACTION_DISPLAY_NAME", "DEVICE_EVENT">>
              [] name \in {"thumbnail-handler", "preview-handler"} ->
                    <<"NAME", "FILE_TYPES", "CLSID">>
              [] OTHER -> <<>>
    IN <<[text |-> "<!-- " \o name \o " -->\n"]>>
          \o Flatten([i \in DOMAIN keys |->
                         <<[text |-> "<" \o keys[i] \o ">"], [key |-> keys[i]],
                           [text |-> "</" \o keys[i] \o ">\n"]>>])

\* replaceTemplateVariables(template, variables): every placeholder whose key
\* is a variable is replaced by the value of the variable, wherever it is in
\* the text; the rest of the text is kept.
replaceTemplateVariables(template, variables) ==
    Join([i \in DOMAIN template |->
             IF "key" \in DOMAIN template[i]
             THEN IF template[i].key \in DOMAIN variables
                  THEN variables[template[i].key].s
                  ELSE "{{" \o template[i].key \o "}}"
             ELSE template[i].text],
         "")

\* The manifest text generateManifest returns: the variables substituted into
\* the manifest template, the fragments of EXTENSIONS rendered from the
\* templates of their kinds.
ManifestText(variables) ==
    LET trimEnd(text) ==
            LET ends == {n \in 0..Len(text) :
                            /\ n = 0 \/ ~IsWhitespace(Char(text, n))
                            /\ \A k \in (n + 1)..Len(text) : IsWhitespace(Char(text, k))}
            IN SubSeq(text, 1, CHOOSE n \in ends : TRUE)
        render(fragment) ==
            trimEnd(replaceTemplateVariables(Template(fragment.template),
                                             fragment.variables))
        block == variables.EXTENSIONS
        extensions ==
            IF block.t = "xml"
            THEN Str(block.open \o "\n"
                        \o Join([i \in DOMAIN block.fragments |->
                                    render(block.fragments[i])], "\n\n")
                        \o "\n" \o block.close)
            ELSE block
    IN replaceTemplateVariables(Template("AppxManifest.xml.template"),
                                [variables EXCEPT !.EXTENSIONS = extensions])

RECURSIVE DirArgs(_, _)
\* appxDirs.flatMap(({ arch, dir }) => [`--dir-${arch}`, dir]), from index i.
DirArgs(dirs, i) ==
    IF i > Len(dirs) THEN <<>>
    ELSE <<"--dir-" \o dirs[i].arch, dirs[i].dir>> \o DirArgs(dirs, i + 1)

\* Mutant: the thumbprint is passed even when a pfx is configured.
SigningArgsThumbprintToo(bundleConfig_, tauriConfig_, env) ==
    LET signing == Field(bundleConfig_, "signing")
        pfx == Field(signing, "pfx")
        password == Or(Field(signing, "pfxPassword"), env.MSIX_PFX_PASSWORD)
        thumbprint == Field(Field(Field(tauriConfig_, "bundle"), "windows"),
                            "certificateThumbprint")
    IN (IF Truthy(pfx)
        THEN <<"--pfx", pfx.s>>
                 \o (IF Truthy(password) THEN <<"--pfx-password", password.s>> ELSE <<>>)
        ELSE <<>>)
       \o (IF Truthy(thumbprint) THEN <<"--thumbprint", thumbprint.s>> ELSE <<>>)

\* The signing arguments of msixbundle-cli.
SigningArgs(bundleConfig_, tauriConfig_, env) ==
    LET signing == Field(bundleConfig_, "signing")
        pfx == Field(signing, "pfx")
        password == Or(Field(signing, "pfxPassword"), env.MSIX_PFX_PASSWORD)
        thumbprint == Field(Field(Field(tauriConfig_, "bundle"), "windows"),
                            "certificateThumbprint")
    IN IF Truthy(pfx)
       THEN <<"--pfx", pfx.s>>
                \o (IF Truthy(password) THEN <<"--pfx-password", password.s>> ELSE <<>>)
       ELSE IF Truthy(thumbprint) THEN <<"--thumbprint", thumbprint.s>>
            ELSE <<>>

\* The arguments of msixbundle-cli.
MsixArgs(dirs, bundleConfig_, tauriConfig_, env) ==
    <<"--force", "--out-dir", PathJoin(<<ProjectRoot, "src-tauri", "target", "msix">>)>>
        \o DirArgs(dirs, 1)
        \o SigningArgs(bundleConfig_, tauriConfig_, env)

---------------------------------------------------------------------------
(* The build command: inputs *)

\* A file that does not exist, and a file whose content is not JSON.
Missing == [t |-> "missing"]
Malformed == [t |-> "malformed"]

\* The object with the entries of f whose value is not undefined.
Doc(f) == Obj([k \in {x \in DOMAIN f : f[x] # Undef} |-> f[k]])

\* tauri.conf.json
TauriDocs ==
    LET \* The bundle sections of tauri.conf.json.
        TauriBundles ==
            {Undef,
             Doc([shortDescription |-> Str("A test app")]),
             Doc([publisher |-> Str("CN=Tauri")]),
             Doc([publisher |-> Str("CN=Tauri"),
                  windows |-> Doc([certificateThumbprint |-> Str("ABC123")])])}
        \* The version and identifier of tauri.conf.json.
        TauriIds ==
            {[version |-> Undef, identifier |-> Undef],
             [version |-> Str("1.2"), identifier |-> Undef],
             [version |-> Str("1.2.3.4.5"), identifier |-> Str("com.example.testapp")]}
    IN {Doc([productName |-> p, version |-> vi.version, identifier |-> vi.identifier,
             bundle |-> b]) :
           p \in {Undef, Str("Test App")}, vi \in TauriIds, b \in TauriBundles}

\* bundle.config.json
BundleDocs ==
    LET \* The capabilities, signing and further keys of bundle.config.json.
        BundleRests ==
            {[capabilities |-> Undef, signing |-> Undef, displayName |-> Undef],
             [capabilities |-> Doc([general |-> Arr(<<Str("internetClient")>>),
                                    device |-> Arr(<<Str("webcam")>>)]),
              signing |-> Doc([pfx |-> Str("cert.pfx")]),
              displayName |-> Undef],
             [capabilities |-> Doc([general |-> Arr(<<Str("webcam"), Str("bad1")>>),
                                    restricted |-> Arr(<<Str("runFullTrust")>>)]),
              signing |-> Undef,
              displayName |-> Undef],
             [capabilities |-> Doc([restricted |-> Arr(<<Str("broadFileSystemAccess")>>)]),
              signing |-> Doc([pfx |-> Str("cert.pfx"), pfxPassword |-> Str("secret")]),
              displayName |-> Str("Packaged Name")]}
    IN {Doc([publisher |-> p, publisherDisplayName |-> d,
             capabilities |-> r.capabilities, signing |-> r.signing,
             displayName |-> r.displayName]) :
           p \in {Undef, Str(""), Str("CN=TestCompany")},
           d \in {Undef, Str("Test Company")},
           r \in BundleRests}

\* The options build is called with, and the environment of the process.
DefaultInvocation ==
    [options |-> [arch |-> Undef, debug |-> FALSE, minWindows |-> Undef,
                  runner |-> Undef, verbose |-> FALSE],
     env |-> [MSIX_PFX_PASSWORD |-> Undef]]

\* What `msixbundle-cli --version` prints; Null when the command fails.
CliOutputs ==
    {Null, Str("unknown"), Str("msixbundle-cli 1.1.3\n"), Str("1.1.4"),
     Str("msixbundle-cli 1.2.0\n"), Str("msixbundle-cli 0.9.12")}

\* The project on disk: whether a project root is found above the working
\* directory, the three configuration files and the manifest template.
Disks ==
    LET \* tauri.windows.conf.json, when it exists.
        OverrideDocs ==
            {Missing,
             Doc([identifier |-> Str("com.windows.override")]),
             Doc([bundle |-> Doc([publisher |-> Str("CN=FromWindowsConfig")])]),
             Doc([productName |-> Str("WindowsApp"), version |-> Str("2.0.0"),
                  bundle |-> Doc([shortDescription |-> Str("Windows description")])])}
    IN {[projectRoot |-> TRUE, tauriConf |-> t, windowsConf |-> w, bundleConfig |-> b,
         template |-> TRUE] : t \in TauriDocs, w \in OverrideDocs, b \in BundleDocs}
       \cup
       {[projectRoot |-> r, tauriConf |-> t, windowsConf |-> Missing, bundleConfig |-> b,
         template |-> m] :
           r \in BOOLEAN,
           t \in {Missing, Malformed, Doc([productName |-> Str("Test App")])},
           b \in {Missing, Malformed, Doc([publisher |-> Str("CN=TestCompany")])},
           m \in BOOLEAN}

---------------------------------------------------------------------------
(* Idle values: what the variables of a component hold under the           *)
(* specification of another component.                                     *)

CapsIdle ==
    /\ vConfig = Undef
    /\ vErrors = <<>>
    /\ vPc = "idle"

MergeIdle ==
    /\ heap = <<>>
    /\ mTarget = Undef /\ mPatch = Undef
    /\ mTargetDoc = Undef /\ mPatchDoc = Undef
    /\ mResult = Undef
    /\ mMutated = 0
    /\ mPc = "idle"

CallIdle ==
    /\ fArgs = Undef
    /\ fResult = Undef
    /\ fPc = "idle"

ProcIdle ==
    /\ spinner = Null /\ timers = {}
    /\ lastWrite = Undef /\ lastCall = "none"
    /\ eArgs = Undef /\ child = Undef /\ promise = Undef
    /\ capturedOutput = "" /\ eConsole = <<>>

BuildIdle ==
    /\ options = Undef /\ procEnv = Undef /\ disk = Undef
    /\ bPc = "idle"
    /\ tauriConfig = Undef /\ bundleConfig = Undef /\ config = Undef
    /\ architectures = <<>> /\ archIdx = 0
    /\ appxDirs = <<>> /\ manifests = <<>>
    /\ commands = <<>> /\ console = <<>>
    /\ exitCode = Undef /\ cliVersion = Undef

MergeInit ==
    \E td \in TargetDocs, pd \in PatchDocs :
        LET t == Alloc(<<>>, td)
            p == Alloc(t.h, pd)
        IN /\ heap = p.h
           /\ mTarget = t.v /\ mPatch = p.v
           /\ mTargetDoc = td /\ mPatchDoc = pd
           /\ mResult = Undef
           /\ mMutated = 0
           /\ mPc = "ready"
           /\ CapsIdle
           /\ BuildIdle /\ CallIdle /\ ProcIdle

MergeCall ==
    /\ mPc = "ready"
    /\ LET r == jsonMergePatch(heap, mTarget, mPatch)
       IN heap' = r.h /\ mResult' = r.v
    /\ mPc' = "returned"
    /\ UNCHANGED <<mTarget, mPatch, mTargetDoc, mPatchDoc, mMutated>>
    /\ UNCHANGED <<capsVars, buildVars, callVars, procVars>>

\* The caller mutates the returned structure: it sets a key of an object or
\* pushes onto an array reachable from the result.
MutateResult ==
    /\ mPc = "returned"
    /\ \E r \in Reach(heap, mResult) :
          /\ heap' = [heap EXCEPT ![r] =
                         IF heap[r].t = "obj"
                         THEN ObjCell(Put(heap[r].o, "z", Num(0)))
                         ELSE ArrCell(Append(heap[r].a, Num(0)))]
          /\ mMutated' = r
    /\ mPc' = "mutated"
    /\ UNCHANGED <<mTarget, mPatch, mTargetDoc, mPatchDoc, mResult>>
    /\ UNCHANGED <<capsVars, buildVars, callVars, procVars>>

SpecMerge == MergeInit /\ [][MergeCall \/ MutateResult]_vars

---------------------------------------------------------------------------
(* The capability specification: one call of validateCapabilities.         *)

\* Every CapabilitiesConfig over Tokens that declares at most MaxDeclared
\* tokens in all; a category is absent or a list (possibly empty).
CapsInit ==
    /\ \E g \in OptionalLists(MaxDeclared) :
       \E d \in OptionalLists(MaxDeclared - Len(g.list)) :
       \E r \in OptionalLists(MaxDeclared - Len(g.list) - Len(d.list)) :
          vConfig = CapabilitiesDoc(g, d, r)
    /\ vErrors = <<>>
    /\ vPc = "ready"
    /\ MergeIdle
    /\ BuildIdle /\ CallIdle /\ ProcIdle

ValidateCall ==
    /\ vPc = "ready"
    /\ vErrors' = validateCapabilities(vConfig)
    /\ vPc' = "returned"
    /\ UNCHANGED vConfig
    /\ UNCHANGED <<mergeVars, buildVars, callVars, procVars>>

SpecCaps == CapsInit /\ [][ValidateCall]_vars

---------------------------------------------------------------------------
(* The build command: build(options) called from the CLI *)

\* console.log(text) and console.error(text)
Log(text) == [stream |-> "log", text |-> text]
Err(text) == [stream |-> "error", text |-> text]

ManualInstallHint ==
    <<Log("\nInstall manually: cargo install msixbundle-cli"),
      Log("Or from: https://github.com/Choochmeque/msixbundle-rs")>>

\* process.exit(code) after the lines were written.
Exit(code, lines) ==
    /\ console' = console \o lines
    /\ exitCode' = Num(code)
    /\ bPc' = "exited"

\* An Error thrown out of build: the catch of the CLI's build action prints
\* it and exits with code 1.
Throw(message) == Exit(1, <<Err("Error: " \o message)>>)

BuildInit ==
    /\ LET Invocations ==
               {DefaultInvocation,
                [options |-> [arch |-> Str("arm64,x64"), debug |-> TRUE,
                              minWindows |-> Str("10.0.19041.0"),
                              runner |-> Str("npm"), verbose |-> TRUE],
                 env |-> [MSIX_PFX_PASSWORD |-> Str("env-secret")]]}
       IN \E i \in Invocations, d \in Disks :
             /\ i = DefaultInvocation \/ d.windowsConf = Missing
             /\ options = i.options /\ procEnv = i.env
             /\ disk = d
    /\ bPc = "start"
    /\ tauriConfig = Undef /\ bundleConfig = Undef /\ config = Undef
    /\ architectures = <<>> /\ archIdx = 0
    /\ appxDirs = <<>> /\ manifests = <<>>
    /\ commands = <<>> /\ console = <<>>
    /\ exitCode = Undef /\ cliVersion = Undef
    /\ MergeIdle /\ CapsIdle /\ CallIdle /\ ProcIdle

\* isMsixbundleCliInstalled(): `msixbundle-cli --version` succeeds or fails.
CheckInstalled ==
    /\ bPc = "start"
    /\ \E installed \in BOOLEAN :
          bPc' = IF installed THEN "version" ELSE "prompt"
    /\ console' = Append(console, Log("Building MSIX package...\n"))
    /\ commands' = Append(commands, "msixbundle-cli --version")
    /\ UNCHANGED <<options, procEnv, disk, cliVersion, tauriConfig, bundleConfig, config,
                   architectures, archIdx, appxDirs, manifests, exitCode>>
    /\ UNCHANGED <<mergeVars, capsVars, callVars, procVars>>

\* promptInstall(...): the user answers the question.
PromptInstall ==
    /\ bPc = "prompt"
    /\ \E answer \in {"y", "Y", "n", ""} :
          IF promptInstall(answer)
          THEN bPc' = "install" /\ UNCHANGED <<console, exitCode>>
          ELSE Exit(1, ManualInstallHint)
    /\ UNCHANGED <<options, procEnv, disk, cliVersion, tauriConfig, bundleConfig, config,
                   architectures, archIdx, appxDirs, manifests, commands>>
    /\ UNCHANGED <<mergeVars, capsVars, callVars, procVars>>

\* execWithProgress('cargo install msixbundle-cli') resolves or rejects.
InstallCli ==
    /\ bPc = "install"
    /\ commands' = Append(commands, "cargo install msixbundle-cli")
    /\ \E ok \in BOOLEAN :
          IF ok
          THEN bPc' = "version" /\ UNCHANGED <<console, exitCode>>
          ELSE Exit(1, <<Err("Failed to install msixbundle-cli:")>> \o ManualInstallHint)
    /\ UNCHANGED <<options, procEnv, disk, cliVersion, tauriConfig, bundleConfig, config,
                   architectures, archIdx, appxDirs, manifests>>
    /\ UNCHANGED <<mergeVars, capsVars, callVars, procVars>>

\* A CheckVersion that accepts every version it can determine.
CheckVersionNoMinimum ==
    /\ bPc = "version"
    /\ commands' = Append(commands, "msixbundle-cli --version")
    /\ \E stdout \in CliOutputs :
          LET version == getMsixbundleCliVersion(stdout)
          IN /\ cliVersion' = version
             /\ IF ~Truthy(version)
                THEN Exit(1, <<Err("Could not determine msixbundle-cli version")>>)
                ELSE bPc' = "read" /\ UNCHANGED <<console, exitCode>>
    /\ UNCHANGED <<options, procEnv, disk, tauriConfig, bundleConfig, config,
                   architectures, archIdx, appxDirs, manifests>>
    /\ UNCHANGED <<mergeVars, capsVars, callVars, procVars>>

\* getMsixbundleCliVersion() and the check against the minimum version.
CheckVersion ==
    /\ bPc = "version"
    /\ commands' = Append(commands, "msixbundle-cli --version")
    /\ \E stdout \in CliOutputs :
          LET version == getMsixbundleCliVersion(stdout)
          IN /\ cliVersion' = version
             /\ IF ~Truthy(version)
                THEN Exit(1, <<Err("Could not determine msixbundle-cli version")>>)
                ELSE IF ~isVersionSufficient(version.s, MIN_MSIXBUNDLE_CLI_VERSION)
                     THEN Exit(1, <<Err("msixbundle-cli version " \o version.s
                                          \o " is too old. Minimum required: "
                                          \o MIN_MSIXBUNDLE_CLI_VERSION),
                                    Log("Update with: cargo install msixbundle-cli --force")>>)
                     ELSE bPc' = "read" /\ UNCHANGED <<console, exitCode>>
    /\ UNCHANGED <<options, procEnv, disk, tauriConfig, bundleConfig, config,
                   architectures, archIdx, appxDirs, manifests>>
    /\ UNCHANGED <<mergeVars, capsVars, callVars, procVars>>

\* findProjectRoot(), readTauriConfig(projectRoot) and
\* readBundleConfig(windowsDir).
ReadConfigs ==
    /\ bPc = "read"
    /\ IF ~disk.projectRoot
       THEN /\ Throw("Could not find Tauri project root. "
                        \o "Make sure you are in a Tauri project directory.")
            /\ UNCHANGED <<tauriConfig, bundleConfig>>
       ELSE IF disk.tauriConf = Missing
       THEN /\ Throw("tauri.conf.json not found at "
                        \o PathJoin(<<ProjectRoot, "src-tauri", "tauri.conf.json">>))
            /\ UNCHANGED <<tauriConfig, bundleConfig>>
       ELSE IF disk.tauriConf = Malformed
       THEN /\ Throw("Failed to parse tauri.conf.json: Unexpected token")
            /\ UNCHANGED <<tauriConfig, bundleConfig>>
       ELSE IF disk.bundleConfig = Missing
       THEN /\ Throw("bundle.config.json not found. "
                        \o "Run 'tauri-windows-bundle init' first.")
            /\ tauriConfig' = disk.tauriConf
            /\ UNCHANGED bundleConfig
       ELSE IF disk.bundleConfig = Malformed
       THEN /\ Throw("Failed to parse bundle.config.json: Unexpected token")
            /\ tauriConfig' = disk.tauriConf
            /\ UNCHANGED bundleConfig
       ELSE /\ tauriConfig' = disk.tauriConf
            /\ bundleConfig' = disk.bundleConfig
            /\ bPc' = "validate"
            /\ UNCHANGED <<console, exitCode>>
    /\ UNCHANGED <<options, procEnv, disk, cliVersion, config, architectures, archIdx,
                   appxDirs, manifests, commands>>
    /\ UNCHANGED <<mergeVars, capsVars, callVars, procVars>>

\* Mutant: the capability errors are printed but build goes on.
ValidateCapabilitiesWarnOnly ==
    /\ bPc = "validate"
    /\ LET capabilities == Field(bundleConfig, "capabilities")
           errors == IF Truthy(capabilities) THEN validateCapabilities(capabilities)
                     ELSE <<>>
       IN console' = IF Len(errors) > 0
                     THEN console \o <<Err("Invalid capabilities in bundle.config.json:")>>
                              \o [i \in DOMAIN errors |-> Err("  - " \o ErrorText(errors[i]))]
                     ELSE console
    /\ bPc' = "merge"
    /\ UNCHANGED <<options, procEnv, disk, cliVersion, tauriConfig, bundleConfig, config,
                   architectures, archIdx, appxDirs, manifests, commands, exitCode>>
    /\ UNCHANGED <<mergeVars, capsVars, callVars, procVars>>

\* if (bundleConfig.capabilities) { validateCapabilities(...) ... }
ValidateCapabilities ==
    /\ bPc = "validate"
    /\ LET capabilities == Field(bundleConfig, "capabilities")
           errors == IF Truthy(capabilities) THEN validateCapabilities(capabilities)
                     ELSE <<>>
       IN IF Len(errors) > 0
          THEN Exit(1, <<Err("Invalid capabilities in bundle.config.json:")>>
                          \o [i \in DOMAIN errors |-> Err("  - " \o ErrorText(errors[i]))])
          ELSE bPc' = "merge" /\ UNCHANGED <<console, exitCode>>
    /\ UNCHANGED <<options, procEnv, disk, cliVersion, tauriConfig, bundleConfig, config,
                   architectures, archIdx, appxDirs, manifests, commands>>
    /\ UNCHANGED <<mergeVars, capsVars, callVars, procVars>>

\* const config: MergedConfig = { ... }, and the architectures of the run.
ResolveConfig ==
    /\ bPc = "merge"
    /\ config' = MergeConfig(tauriConfig, bundleConfig)
    /\ architectures' = Architectures(options)
    /\ archIdx' = 1
    /\ bPc' = "build"
    /\ UNCHANGED <<options, procEnv, disk, cliVersion, tauriConfig, bundleConfig, appxDirs,
                   manifests, commands, console, exitCode>>
    /\ UNCHANGED <<mergeVars, capsVars, callVars, procVars>>

\* Mutant: a failed build is reported and build goes on.
TauriBuildContinueOnFailure ==
    /\ bPc = "build"
    /\ LET arch == architectures[archIdx]
           buildCommand == BuildCommand(options, arch)
           running == IF options.verbose
                      THEN <<Log("  Running: " \o buildCommand \o "\n")>> ELSE <<>>
       IN /\ commands' = Append(commands, buildCommand)
          /\ \E ok \in BOOLEAN :
                console' = IF ok THEN console \o running
                           ELSE console \o running
                                    \o <<Err("Failed to build for " \o arch \o ":")>>
          /\ bPc' = "prepare"
          /\ UNCHANGED exitCode
    /\ UNCHANGED <<options, procEnv, disk, cliVersion, tauriConfig, bundleConfig, config,
                   architectures, archIdx, appxDirs, manifests>>
    /\ UNCHANGED <<mergeVars, capsVars, callVars, procVars>>

\* The Tauri build of architectures[archIdx] resolves or rejects.
TauriBuild ==
    /\ bPc = "build"
    /\ LET arch == architectures[archIdx]
           buildCommand == BuildCommand(options, arch)
           running == IF options.verbose
                      THEN <<Log("  Running: " \o buildCommand \o "\n")>> ELSE <<>>
       IN /\ commands' = Append(commands, buildCommand)
          /\ \E ok \in BOOLEAN :
                IF ok
                THEN /\ console' = console \o running
                     /\ bPc' = "prepare"
                     /\ UNCHANGED exitCode
                ELSE Exit(1, running \o <<Err("Failed to build for " \o arch \o ":")>>)
    /\ UNCHANGED <<options, procEnv, disk, cliVersion, tauriConfig, bundleConfig, config,
                   architectures, archIdx, appxDirs, manifests>>
    /\ UNCHANGED <<mergeVars, capsVars, callVars, procVars>>

\* prepareAppxContent(projectRoot, arch, config, tauriConfig, minVersion):
\* generates the manifest of the architecture into its AppxContent directory;
\* throws when the manifest template does not exist.
PrepareAppxContent ==
    /\ bPc = "prepare"
    /\ LET arch == architectures[archIdx]
           minVersion == Or(options.minWindows, Str(DEFAULT_MIN_WINDOWS_VERSION)).s
           appxDir == PathJoin(<<ProjectRoot, "src-tauri", "target", "appx", arch>>)
           preparing == Log("  Preparing AppxContent for " \o arch \o "...")
       IN IF ~disk.template
          THEN /\ Exit(1, <<preparing,
                            Err("Error: AppxManifest.xml.template not found at "
                                  \o PathJoin(<<getWindowsDir(ProjectRoot),
                                                "AppxManifest.xml.template">>)
                                  \o ". Run 'tauri-windows-bundle init' first.")>>)
               /\ UNCHANGED <<manifests, appxDirs, archIdx>>
          ELSE /\ manifests' = Append(manifests, generateManifest(config, arch, minVersion))
               /\ appxDirs' = Append(appxDirs, [arch |-> arch, dir |-> appxDir])
               /\ console' = console \o <<preparing,
                                          Log("  AppxContent ready: " \o appxDir)>>
               /\ archIdx' = archIdx + 1
               /\ bPc' = IF archIdx < Len(architectures) THEN "build" ELSE "msix"
               /\ UNCHANGED exitCode
    /\ UNCHANGED <<options, procEnv, disk, cliVersion, tauriConfig, bundleConfig, config,
                   architectures, commands>>
    /\ UNCHANGED <<mergeVars, capsVars, callVars, procVars>>

\* msixbundle-cli is run on the prepared directories and succeeds or fails.
CreateMsix ==
    /\ bPc = "msix"
    /\ LET command == "msixbundle-cli "
                        \o Join(MsixArgs(appxDirs, bundleConfig, tauriConfig, procEnv), " ")
           running == <<Log("\nCreating MSIX package..."), Log("  Running: " \o command)>>
       IN /\ commands' = Append(commands, command)
          /\ \E ok \in BOOLEAN :
                IF ok
                THEN /\ console' = console \o running
                                      \o <<Log("\n MSIX bundle created!"),
                                           Log("Output: " \o PathJoin(<<ProjectRoot,
                                                   "src-tauri", "target", "msix">>))>>
                     /\ exitCode' = Num(0)
                     /\ bPc' = "done"
                ELSE Exit(1, running \o <<Err("Failed to create MSIX:")>>)
    /\ UNCHANGED <<options, procEnv, disk, cliVersion, tauriConfig, bundleConfig, config,
                   architectures, archIdx, appxDirs, manifests>>
    /\ UNCHANGED <<mergeVars, capsVars, callVars, procVars>>

Next ==
    \/ CheckInstalled
    \/ PromptInstall
    \/ InstallCli
    \/ CheckVersion
    \/ ReadConfigs
    \/ ValidateCapabilities
    \/ ResolveConfig
    \/ TauriBuild
    \/ PrepareAppxContent
    \/ CreateMsix

Spec == BuildInit /\ [][Next]_vars

---------------------------------------------------------------------------
(* Calls of the pure functions, one specification per function *)

\* The other components are idle while a pure function is checked.
OthersIdle == MergeIdle /\ CapsIdle /\ BuildIdle /\ ProcIdle

\* The function returned: its result is kept and the call is over.
Return(result) ==
    /\ fPc = "ready"
    /\ fResult' = result
    /\ fPc' = "returned"
    /\ UNCHANGED fArgs
    /\ UNCHANGED <<mergeVars, capsVars, buildVars, procVars>>

\* Version strings: at most MaxSegments segments joined by dots; a segment is
\* a number, empty, or carries a pre-release suffix.
MaxSegments == 5

SegmentLists(n) ==
    LET Segments == {"0", "1", "23", "", "4-beta"}
    IN UNION {[1..l -> Segments] : l \in 1..n}

VersionInit ==
    /\ \E segments \in SegmentLists(MaxSegments) :
          fArgs = [version |-> Join(segments, "."), segments |-> segments]
    /\ fResult = Undef
    /\ fPc = "ready"
    /\ OthersIdle

CallToFourPartVersion == Return(Str(toFourPartVersion(fArgs.version)))

SpecVersion == VersionInit /\ [][CallToFourPartVersion]_vars

\* isVersionSufficient called on two versions of three numeric segments.
SufficientInit ==
    /\ LET VersionTexts ==
               {Join(<<a, b, c>>, ".") :
                   a \in {"0", "1", "2", "12"}, b \in {"0", "1", "9", "10"},
                   c \in {"0", "3", "4", "12"}}
       IN \E version \in VersionTexts, minVersion \in VersionTexts :
             fArgs = [version |-> version, minVersion |-> minVersion]
    /\ fResult = Undef
    /\ fPc = "ready"
    /\ OthersIdle

CallIsVersionSufficient ==
    Return(Bool(isVersionSufficient(fArgs.version, fArgs.minVersion)))

SpecSufficient == SufficientInit /\ [][CallIsVersionSufficient]_vars

\* generateCapabilities called on a CapabilitiesConfig of at most MaxDeclared
\* declared tokens.
CapabilitiesInit ==
    /\ \E g \in OptionalLists(MaxDeclared) :
       \E d \in OptionalLists(MaxDeclared - Len(g.list)) :
       \E r \in OptionalLists(MaxDeclared - Len(g.list) - Len(d.list)) :
          fArgs = [config |-> CapabilitiesDoc(g, d, r)]
    /\ fResult = Undef
    /\ fPc = "ready"
    /\ OthersIdle

CallGenerateCapabilities == Return(Str(generateCapabilities(fArgs.config)))

SpecCapabilities == CapabilitiesInit /\ [][CallGenerateCapabilities]_vars

\* generateClsid called on a seed of at most MaxSeedParts parts, and called
\* again on the same seed.
MaxSeedParts == 3

RECURSIVE Seeds(_)
Seeds(n) ==
    LET SeedParts == {"G", "Gy", "dZ", "G_", "yy"}
    IN IF n = 0 THEN {""}
       ELSE {""} \cup {part \o seed : part \in SeedParts, seed \in Seeds(n - 1)}

ClsidInit ==
    /\ \E seed \in Seeds(MaxSeedParts) : fArgs = [seed |-> seed]
    /\ fResult = Undef
    /\ fPc = "ready"
    /\ OthersIdle

CallGenerateClsid == Return(Str(generateClsid(fArgs.seed)))

CallGenerateClsidAgain ==
    /\ fPc = "returned"
    /\ fResult' = Str(generateClsid(fArgs.seed))
    /\ fPc' = "repeated"
    /\ UNCHANGED fArgs
    /\ UNCHANGED <<mergeVars, capsVars, buildVars, procVars>>

SpecClsid == ClsidInit /\ [][CallGenerateClsid \/ CallGenerateClsidAgain]_vars

\* generateExtensions called on a MergedConfig whose extensions declare at
\* most MaxKinds of the extension kinds.
MaxKinds == 2

\* The keys of BundleConfig.extensions.
ExtensionKeys ==
    <<"previewHandlers", "thumbnailHandlers", "printTaskSettings", "autoplayHandlers",
      "toastActivation", "appServices", "appExecutionAliases", "backgroundTasks",
      "contextMenus", "startupTask", "protocolHandlers", "fileAssociations",
      "shareTarget">>

\* The values a key of BundleConfig.extensions takes when it is present.
ExtensionValues(key) ==
    CASE key = "shareTarget" -> {Bool(FALSE), Bool(TRUE)}
      [] key = "fileAssociations" ->
            LET a == Doc([name |-> Str("myfile"),
                          extensions |-> Arr(<<Str(".myf"), Str(".myx")>>)])
                b == Doc([name |-> Str("other"), extensions |-> Arr(<<Str(".oth")>>)])
            IN {Arr(<<>>), Arr(<<a>>), Arr(<<a, b>>), Arr(<<b, a>>)}
      [] key = "protocolHandlers" ->
            LET a == Doc([name |-> Str("myapp"), displayName |-> Str("My App Protocol")])
                b == Doc([name |-> Str("second")])
            IN {Arr(<<>>), Arr(<<b>>), Arr(<<a, b>>)}
      [] key = "startupTask" ->
            {Doc([enabled |-> Bool(FALSE)]), Doc([enabled |-> Bool(TRUE)]),
             Doc([enabled |-> Bool(TRUE), taskId |-> Str("CustomTask")])}
      [] key = "contextMenus" ->
            LET a == Doc([name |-> Str("open-with"),
                          fileTypes |-> Arr(<<Str("*"), Str(".txt")>>)])
                b == Doc([name |-> Str("edit-with"), fileTypes |-> Arr(<<Str(".md")>>)])
            IN {Arr(<<>>), Arr(<<a>>), Arr(<<b, a>>)}
      [] key = "backgroundTasks" ->
            LET a == Doc([name |-> Str("sync-task"), type |-> Str("timer")])
                b == Doc([name |-> Str("event-task"), type |-> Str("systemEvent")])
                c == Doc([name |-> Str("push-task"), type |-> Str("pushNotification")])
            IN {Arr(<<>>), Arr(<<a>>), Arr(<<c, b>>)}
      [] key = "appExecutionAliases" ->
            LET a == Doc([alias |-> Str("myapp")])
                b == Doc([alias |-> Str("tool.exe")])
            IN {Arr(<<>>), Arr(<<a>>), Arr(<<b, a>>)}
      [] key = "appServices" ->
            LET a == Doc([name |-> Str("com.myapp.service")])
                b == Doc([name |-> Str("com.myapp.other")])
            IN {Arr(<<>>), Arr(<<a>>), Arr(<<a, b>>)}
      [] key = "toastActivation" -> {Doc([activationType |-> Str("foreground")])}
      [] key = "autoplayHandlers" ->
            LET none == Doc([verb |-> Str("none"), actionDisplayName |-> Str("Nothing")])
                content == Doc([verb |-> Str("open"),
                                actionDisplayName |-> Str("Open with MyApp"),
                                contentEvent |-> Str("PlayMusicFiles")])
                device == Doc([verb |-> Str("import"),
                               actionDisplayName |-> Str("Import"),
                               deviceEvent |-> Str("WPD\\ImageSource")])
                both == Doc([verb |-> Str("both"), actionDisplayName |-> Str("Both"),
                             contentEvent |-> Str("ShowPicturesOnArrival"),
                             deviceEvent |-> Str("WPD\\VideoSource")])
            IN {Arr(<<>>), Arr(<<none>>), Arr(<<content>>), Arr(<<device>>),
                Arr(<<both>>), Arr(<<both, none, content>>)}
      [] key = "printTaskSettings" -> {Doc([displayName |-> Str("Print Settings")])}
      [] key = "thumbnailHandlers" ->
            LET a == Doc([clsid |-> Str("{12345678-1234-1234-1234-123456789012}"),
                          fileTypes |-> Arr(<<Str(".myf")>>)])
                b == Doc([clsid |-> Str("{0F0F0F0F-1234-1234-1234-123456789012}"),
                          fileTypes |-> Arr(<<Str(".png"), Str(".jpg")>>)])
            IN {Arr(<<>>), Arr(<<a>>), Arr(<<a, b>>)}
      [] key = "previewHandlers" ->
            LET a == Doc([clsid |-> Str("{ABCDEF12-1234-1234-1234-123456789012}"),
                          fileTypes |-> Arr(<<Str(".doc"), Str(".docx")>>)])
                b == Doc([clsid |-> Str("{00000000-1234-1234-1234-123456789012}"),
                          fileTypes |-> Arr(<<Str(".pdf")>>)])
            IN {Arr(<<>>), Arr(<<a>>), Arr(<<b, a>>)}

RECURSIVE ExtensionDocs(_, _)
\* The extensions objects with at most n of the keys from the i-th on.
ExtensionDocs(i, n) ==
    IF i > Len(ExtensionKeys) THEN {EmptyFn}
    ELSE ExtensionDocs(i + 1, n)
            \cup (IF n = 0 THEN {}
                  ELSE {Put(doc, ExtensionKeys[i], v) :
                            doc \in ExtensionDocs(i + 1, n - 1),
                            v \in ExtensionValues(ExtensionKeys[i])})

ExtensionsInit ==
    /\ \E e \in {Undef} \cup {Obj(doc) : doc \in ExtensionDocs(1, MaxKinds)} :
          fArgs = [config |-> Doc([displayName |-> Str("Test App"),
                                   identifier |-> Str("com.example.testapp"),
                                   extensions |-> e])]
    /\ fResult = Undef
    /\ fPc = "ready"
    /\ OthersIdle

CallGenerateExtensions == Return(generateExtensions(fArgs.config))

SpecExtensions == ExtensionsInit /\ [][CallGenerateExtensions]_vars

\* generateManifest called on the MergedConfig of the tests, with every
\* extensions object of at most MaxKinds kinds, for both architectures.
ManifestInit ==
    /\ \E e \in {Undef} \cup {Obj(doc) : doc \in ExtensionDocs(1, MaxKinds)},
          description \in {Str("A test application"), Str("")},
          arch \in {"x64", "arm64"} :
          fArgs = [config |-> Doc([displayName |-> Str("Test App"),
                                   version |-> Str("1.0.0.0"),
                                   description |-> description,
                                   identifier |-> Str("com.example.testapp"),
                                   publisher |-> Str("CN=TestCompany"),
                                   publisherDisplayName |-> Str("Test Company"),
                                   capabilities |->
                                       Doc([general |-> Arr(<<Str("internetClient")>>)]),
                                   extensions |-> e]),
                   arch |-> arch, minVersion |-> DEFAULT_MIN_WINDOWS_VERSION]
    /\ fResult = Undef
    /\ fPc = "ready"
    /\ OthersIdle

CallGenerateManifest ==
    Return(Str(ManifestText(generateManifest(fArgs.config, fArgs.arch, fArgs.minVersion))))

SpecManifest == ManifestInit /\ [][CallGenerateManifest]_vars

\* The readers of the input documents, each called on a directory and on
\* what the file system holds at the path the reader looks at: nothing, a
\* text that is not JSON, or a document.

\* An Error thrown by a function.
Thrown(message) == [t |-> "error", message |-> message]

\* The message of the SyntaxError JSON.parse throws on a malformed text.
ParseError == "Unexpected token i in JSON at position 0"

readTauriConfig(projectRoot, file) ==
    LET configPath == PathJoin(<<projectRoot, "src-tauri", "tauri.conf.json">>)
    IN IF file = Missing THEN Thrown("tauri.conf.json not found at " \o configPath)
       ELSE IF file = Malformed
       THEN Thrown("Failed to parse tauri.conf.json: " \o ParseError)
       ELSE file

\* Mutant: a missing tauri.windows.conf.json is an error.
readTauriWindowsConfigRequired(projectRoot, file) ==
    LET configPath == PathJoin(<<projectRoot, "src-tauri", "tauri.windows.conf.json">>)
    IN IF file = Missing
       THEN Thrown("tauri.windows.conf.json not found at " \o configPath)
       ELSE IF file = Malformed
       THEN Thrown("Failed to parse tauri.windows.conf.json: " \o ParseError)
       ELSE file

readTauriWindowsConfig(projectRoot, file) ==
    IF file = Missing THEN Null
    ELSE IF file = Malformed
    THEN Thrown("Failed to parse tauri.windows.conf.json: " \o ParseError)
    ELSE file

readBundleConfig(windowsDir, file) ==
    IF file = Missing
    THEN Thrown("bundle.config.json not found. Run 'tauri-windows-bundle init' first.")
    ELSE IF file = Malformed
    THEN Thrown("Failed to parse bundle.config.json: " \o ParseError)
    ELSE file

\* The template is a text and is returned as it was read.
getManifestTemplate(windowsDir, file) ==
    LET localPath == PathJoin(<<windowsDir, "AppxManifest.xml.template">>)
    IN IF file = Missing
       THEN Thrown("AppxManifest.xml.template not found at " \o localPath
                      \o ". Run 'tauri-windows-bundle init' first.")
       ELSE file

ReadersInit ==
    /\ \E projectRoot \in {"/project", "/work/app"} :
          \/ \E reader \in {"readTauriConfig", "readTauriWindowsConfig"},
                file \in {Missing, Malformed} \cup TauriDocs :
                fArgs = [reader |-> reader, dir |-> projectRoot, file |-> file]
          \/ \E file \in {Missing, Malformed} \cup BundleDocs :
                fArgs = [reader |-> "readBundleConfig",
                         dir |-> getWindowsDir(projectRoot), file |-> file]
          \/ \E file \in {Missing, Str("<Package>{{PACKAGE_NAME}}</Package>")} :
                fArgs = [reader |-> "getManifestTemplate",
                         dir |-> getWindowsDir(projectRoot), file |-> file]
    /\ fResult = Undef
    /\ fPc = "ready"
    /\ OthersIdle

CallReader ==
    Return(CASE fArgs.reader = "readTauriConfig" ->
                    readTauriConfig(fArgs.dir, fArgs.file)
             [] fArgs.reader = "readTauriWindowsConfig" ->
                    readTauriWindowsConfig(fArgs.dir, fArgs.file)
             [] fArgs.reader = "readBundleConfig" ->
                    readBundleConfig(fArgs.dir, fArgs.file)
             [] fArgs.reader = "getManifestTemplate" ->
                    getManifestTemplate(fArgs.dir, fArgs.file))

SpecReaders == ReadersInit /\ [][CallReader]_vars

---------------------------------------------------------------------------
(* The Spinner: one Spinner, its methods called in any order, and the      *)
(* callbacks of the interval timers it created.                            *)

\* The frames of the animation, as the code points of their characters.
SPINNER_FRAMES == <<10251, 10265, 10297, 10296, 10300, 10292, 10278, 10279, 10247, 10255>>

\* The interval timers that can be active at a time.
MaxTimers == 2

\* start(): setInterval returns a timer that was not active before; the
\* spinner keeps it in intervalId, whatever intervalId held.
start(s, active) ==
    LET id == CHOOSE i \in 1..(Cardinality(active) + 1) : i \notin active
    IN [spinner |-> [s EXCEPT !.intervalId = Num(id)], timers |-> active \cup {id}]

\* Mutant: stop(success) keeps the interval running.
stopKeepsInterval(s, active, success) ==
    [spinner |-> s, timers |-> active,
     write |-> [symbol |-> IF success THEN 10003 ELSE 10007, message |-> s.message]]

\* stop(success): the interval of intervalId is cleared, if there is one, and
\* the final status line is written, with a check mark or a cross.
stop(s, active, success) ==
    [spinner |-> [s EXCEPT !.intervalId = Null],
     timers |-> IF Truthy(s.intervalId) THEN active \ {s.intervalId.n} ELSE active,
     write |-> [symbol |-> IF success THEN 10003 ELSE 10007, message |-> s.message]]

\* The callback of an active interval timer: the frame is written and
\* frameIndex steps to the next frame.
Tick ==
    /\ \E id \in timers :
          /\ lastWrite' = [symbol |-> SPINNER_FRAMES[spinner.frameIndex + 1],
                           message |-> spinner.message]
          /\ spinner' = [spinner EXCEPT
                            !.frameIndex = (spinner.frameIndex + 1) % Len(SPINNER_FRAMES)]
    /\ UNCHANGED <<timers, lastCall, eArgs, child, promise, capturedOutput, eConsole>>
    /\ UNCHANGED <<mergeVars, capsVars, buildVars, callVars>>

\* new Spinner(message)
SpinnerInit ==
    /\ spinner = [frameIndex |-> 0, intervalId |-> Null, message |-> "Loading..."]
    /\ timers = {}
    /\ lastWrite = Undef /\ lastCall = "none"
    /\ eArgs = Undef /\ child = Undef /\ promise = Undef
    /\ capturedOutput = "" /\ eConsole = <<>>
    /\ MergeIdle /\ CapsIdle /\ BuildIdle /\ CallIdle

\* spinner.start()
CallStart ==
    /\ spinner # Null /\ eArgs = Undef
    /\ Cardinality(timers) < MaxTimers
    /\ LET started == start(spinner, timers)
       IN spinner' = started.spinner /\ timers' = started.timers
    /\ lastCall' = "start"
    /\ UNCHANGED <<lastWrite, eArgs, child, promise, capturedOutput, eConsole>>
    /\ UNCHANGED <<mergeVars, capsVars, buildVars, callVars>>

\* spinner.stop(success), and spinner.fail(), which is stop(false).
CallStop ==
    /\ spinner # Null /\ eArgs = Undef
    /\ \E call \in {"stop", "fail"} :
          LET stopped == stop(spinner, timers, call = "stop")
          IN /\ spinner' = stopped.spinner /\ timers' = stopped.timers
             /\ lastWrite' = stopped.write
             /\ lastCall' = call
    /\ UNCHANGED <<eArgs, child, promise, capturedOutput, eConsole>>
    /\ UNCHANGED <<mergeVars, capsVars, buildVars, callVars>>

SpecSpinner == SpinnerInit /\ [][CallStart \/ CallStop \/ Tick]_vars

---------------------------------------------------------------------------
(* execWithProgress: one call, from the promise it returned to the events  *)
(* of the child process it spawned.                                        *)

\* shouldAnimateSpinner(): standard output is a terminal and CI is not set,
\* or set to "0" or to "false" in any case.
shouldAnimateSpinner(args) ==
    LET ci == args.CI
        lower(c) ==
            IF \E k \in 1..26 : Char("ABCDEFGHIJKLMNOPQRSTUVWXYZ", k) = c
            THEN Char("abcdefghijklmnopqrstuvwxyz",
                      CHOOSE k \in 1..26 : Char("ABCDEFGHIJKLMNOPQRSTUVWXYZ", k) = c)
            ELSE c
        normalized == Join([i \in 1..Len(ci.s) |-> lower(Char(ci.s, i))], "")
        isCiEnvironment == IF ~Truthy(ci) THEN FALSE
                           ELSE normalized # "0" /\ normalized # "false"
    IN args.isTTY /\ ~isCiEnvironment

\* execWithProgress(command, options) returned its promise: the child is
\* spawned, and the spinner is started or the message is logged.
ExecInit ==
    /\ \E verbose \in BOOLEAN, isTTY \in BOOLEAN,
          ci \in {Undef, Str(""), Str("0"), Str("False"), Str("true"), Str("1")},
          message \in {Undef, Str("Building...")} :
          eArgs = [verbose |-> verbose, isTTY |-> isTTY, CI |-> ci,
                   message |-> Or(message, Str("Running...")).s]
    /\ LET useSpinner == ~eArgs.verbose /\ shouldAnimateSpinner(eArgs)
           useStaticProgress == ~eArgs.verbose /\ ~useSpinner
           started == start([frameIndex |-> 0, intervalId |-> Null,
                             message |-> eArgs.message], {})
       IN /\ spinner = IF useSpinner THEN started.spinner ELSE Null
          /\ timers = IF useSpinner THEN started.timers ELSE {}
          /\ lastCall = IF useSpinner THEN "start" ELSE "none"
          /\ eConsole = IF useStaticProgress THEN <<Log(eArgs.message)>> ELSE <<>>
    /\ lastWrite = Undef
    /\ child = <<>>
    /\ promise = [state |-> "pending"]
    /\ capturedOutput = ""
    /\ MergeIdle /\ CapsIdle /\ BuildIdle /\ CallIdle

\* child.stdout / child.stderr 'data': written through when verbose,
\* captured otherwise.  The child writes at most one chunk.
ChildData ==
    /\ eArgs # Undef
    /\ \A i \in DOMAIN child : child[i].type # "close"
    /\ \E stream \in {"stdout", "stderr"} :
          IF eArgs.verbose
          THEN /\ lastWrite' = [stream |-> stream, data |-> "chunk\n"]
               /\ UNCHANGED capturedOutput
          ELSE /\ capturedOutput = ""
               /\ capturedOutput' = capturedOutput \o "chunk\n"
               /\ UNCHANGED lastWrite
    /\ UNCHANGED <<spinner, timers, lastCall, eArgs, child, promise, eConsole>>
    /\ UNCHANGED <<mergeVars, capsVars, buildVars, callVars>>

\* child 'close' with the exit code.
ChildClose ==
    /\ eArgs # Undef
    /\ \A i \in DOMAIN child : child[i].type # "close"
    /\ \E code \in 0..2 :
          LET useStaticProgress == ~eArgs.verbose /\ spinner = Null
              stopped == stop(spinner, timers, code = 0)
              outcome ==
                  IF code = 0 THEN [state |-> "fulfilled"]
                  ELSE [state |-> "rejected",
                        reason |-> Thrown("Command failed with exit code "
                                             \o ToString(code))]
          IN /\ child' = Append(child, [type |-> "close", code |-> code])
             /\ IF spinner # Null
                THEN /\ spinner' = stopped.spinner /\ timers' = stopped.timers
                     /\ lastWrite' = stopped.write
                     /\ lastCall' = IF code = 0 THEN "stop" ELSE "fail"
                ELSE UNCHANGED <<spinner, timers, lastWrite, lastCall>>
             /\ eConsole' =
                   IF code = 0
                   THEN eConsole \o (IF useStaticProgress
                                     THEN <<Log("Done: " \o eArgs.message)>> ELSE <<>>)
                   ELSE eConsole
                          \o (IF useStaticProgress
                              THEN <<Err("Failed: " \o eArgs.message)>> ELSE <<>>)
                          \o (IF ~eArgs.verbose /\ capturedOutput # ""
                              THEN <<Err("\nBuild output:\n" \o capturedOutput)>>
                              ELSE <<>>)
             /\ promise' = IF promise.state = "pending" THEN outcome ELSE promise
    /\ UNCHANGED <<eArgs, capturedOutput>>
    /\ UNCHANGED <<mergeVars, capsVars, buildVars, callVars>>

\* child 'error': the process could not be spawned or killed.  It is emitted
\* before 'close', which may or may not follow it.
ChildError ==
    /\ eArgs # Undef
    /\ child = <<>>
    /\ LET useStaticProgress == ~eArgs.verbose /\ spinner = Null
           stopped == stop(spinner, timers, FALSE)
           error == Thrown("spawn ENOENT")
       IN /\ child' = Append(child, [type |-> "error", error |-> error])
          /\ IF spinner # Null
             THEN /\ spinner' = stopped.spinner /\ timers' = stopped.timers
                  /\ lastWrite' = stopped.write
                  /\ lastCall' = "fail"
             ELSE UNCHANGED <<spinner, timers, lastWrite, lastCall>>
          /\ eConsole' =
                eConsole
                  \o (IF useStaticProgress
                      THEN <<Err("Failed: " \o eArgs.message)>> ELSE <<>>)
                  \o (IF ~eArgs.verbose /\ capturedOutput # ""
                      THEN <<Err("\nBuild output:\n" \o capturedOutput)>> ELSE <<>>)
          /\ promise' = IF promise.state = "pending"
                        THEN [state |-> "rejected", reason |-> error] ELSE promise
    /\ UNCHANGED <<eArgs, capturedOutput>>
    /\ UNCHANGED <<mergeVars, capsVars, buildVars, callVars>>

SpecExec == ExecInit /\ [][ChildData \/ ChildClose \/ ChildError \/ Tick]_vars

---------------------------------------------------------------------------
(* Properties of jsonMergePatch, checked under SpecMerge *)

Returned == mPc = "returned"

\* The document returned by the call.
ResultDoc == Deref(heap, mResult)

\* The keys of a document: its own keys when it is an object, else none.
KeysOf(d) == IF d.t = "obj" THEN DOMAIN d.o ELSE {}

\* The keys an object patch maps to null, and those it maps to another value.
NullKeys(p) == {k \in DOMAIN p.o : p.o[k] = Null}
NonNullKeys(p) == {k \in DOMAIN p.o : p.o[k] # Null}

\* d[k] as a document, undefined when d is no object or has no key k.
DocGet(d, k) == IF k \in KeysOf(d) THEN d.o[k] ELSE Undef

RECURSIVE IsMergeOf(_, _, _, _)
\* r is the merge of the object patch p into t, stated as a relation on
\* documents and not through jsonMergePatch: the key set of r, the value of
\* every non-null patch key (a nested merge when the patch value is an
\* object, the patch value otherwise) and the value of every untouched key.
\* With literal = TRUE the key set is read as the claim words it: every key
\* of t plus the non-null keys of p.
IsMergeOf(t, p, r, literal) ==
    /\ r.t = "obj"
    /\ DOMAIN r.o = (IF literal THEN KeysOf(t) ELSE KeysOf(t) \ NullKeys(p))
                        \cup NonNullKeys(p)
    /\ \A k \in NonNullKeys(p) \cap KeysOf(r) :
          IF p.o[k].t = "obj"
          THEN IsMergeOf(DocGet(t, k), p.o[k], r.o[k], literal)
          ELSE r.o[k] = p.o[k]
    /\ \A k \in (KeysOf(t) \ DOMAIN p.o) \cap KeysOf(r) : r.o[k] = t.o[k]

\* C5 as stated: for an object patch the result's keys are the keys of target
\* plus the non-null keys of patch, each non-null patch key maps to the
\* recursive merge and each unmentioned target key keeps its value.
C5_AsStated ==
    (Returned /\ mPatchDoc.t = "obj")
        => IsMergeOf(mTargetDoc, mPatchDoc, ResultDoc, TRUE)

\* C5 amended: for an object patch the result's keys are the keys of target
\* that patch does not map to null plus the non-null keys of patch; each
\* non-null patch key k maps to the merge of target[k] and patch[k], nested
\* objects being merged key by key, and each key of target that patch does
\* not mention keeps target's value.
C5_ObjectPatchMerge ==
    (Returned /\ mPatchDoc.t = "obj")
        => IsMergeOf(mTargetDoc, mPatchDoc, ResultDoc, FALSE)

\* A nested object patch met a nested object target: one key of the nested
\* target was overwritten and another one kept.
C5_Witness ==
    /\ Returned
    /\ mPatchDoc.t = "obj" /\ mTargetDoc.t = "obj"
    /\ \E k \in DOMAIN mPatchDoc.o \cap DOMAIN mTargetDoc.o :
          /\ mPatchDoc.o[k].t = "obj" /\ mTargetDoc.o[k].t = "obj"
          /\ \E j \in DOMAIN mPatchDoc.o[k].o \cap DOMAIN mTargetDoc.o[k].o :
                /\ mPatchDoc.o[k].o[j] \notin {Null, mTargetDoc.o[k].o[j]}
                /\ ResultDoc.o[k].o[j] = mPatchDoc.o[k].o[j]
          /\ \E j \in DOMAIN mTargetDoc.o[k].o \ DOMAIN mPatchDoc.o[k].o :
                ResultDoc.o[k].o[j] = mTargetDoc.o[k].o[j]

RECURSIVE NonObjectsReplace(_, _)
\* Under every key, at any depth, a patch value that is neither an object nor
\* null is the value of the result.
NonObjectsReplace(p, r) ==
    /\ r.t = "obj"
    /\ \A k \in NonNullKeys(p) :
          /\ k \in DOMAIN r.o
          /\ IF p.o[k].t = "obj" THEN NonObjectsReplace(p.o[k], r.o[k])
             ELSE r.o[k] = p.o[k]

\* C6: a patch that is not an object (a scalar, an array or null) is returned
\* itself whatever target is; an array in the patch replaces what target holds
\* there, at the top level and under every nested key.
C6_NonObjectPatchReplaces ==
    Returned =>
        IF mPatchDoc.t # "obj"
        THEN mResult = mPatch /\ ResultDoc = mPatchDoc
        ELSE NonObjectsReplace(mPatchDoc, ResultDoc)

\* An array patch met a longer array target, at the top level or under a key.
C6_Witness ==
    /\ Returned
    /\ \/ /\ mPatchDoc.t = "arr" /\ mTargetDoc.t = "arr"
          /\ Len(mTargetDoc.a) > Len(mPatchDoc.a)
       \/ /\ mPatchDoc.t = "obj" /\ mTargetDoc.t = "obj"
          /\ \E k \in DOMAIN mPatchDoc.o \cap DOMAIN mTargetDoc.o :
                /\ mPatchDoc.o[k].t = "arr" /\ mTargetDoc.o[k].t = "arr"
                /\ Len(mTargetDoc.o[k].a) > Len(mPatchDoc.o[k].a)

\* The object with the single entry k: v.
Single(k, v) == Obj([x \in {k} |-> v])

\* C7: for a key k of target, the patch {k: null} yields target without k and
\* with every other key unchanged; the patch {j: {k: null}} on a target whose
\* j is an object holding k removes only k from that nested object.
C7_Tombstone ==
    (Returned /\ mTargetDoc.t = "obj") =>
        \A k \in Keys :
            /\ (k \in DOMAIN mTargetDoc.o /\ mPatchDoc = Single(k, Null))
                  => ResultDoc = Obj(Remove(mTargetDoc.o, k))
            /\ \A j \in DOMAIN mTargetDoc.o :
                  (/\ mTargetDoc.o[j].t = "obj"
                   /\ k \in DOMAIN mTargetDoc.o[j].o
                   /\ mPatchDoc = Single(j, Single(k, Null)))
                  => ResultDoc = Obj(Put(mTargetDoc.o, j,
                                         Obj(Remove(mTargetDoc.o[j].o, k))))

\* A tombstone removed one of two keys, at the top level.
C7_Witness ==
    /\ Returned
    /\ mTargetDoc.t = "obj" /\ DOMAIN mTargetDoc.o = Keys
    /\ \E k \in Keys : mPatchDoc = Single(k, Null) /\ DOMAIN ResultDoc.o = Keys \ {k}

\* C8 as stated: merging the empty patch returns x, for any document x.
C8_AsStated ==
    (Returned /\ mPatchDoc = Obj(EmptyFn)) => ResultDoc = mTargetDoc

\* C8 amended: merging the empty patch returns a document equal to x when x
\* is an object, and the empty object when x is an array, a scalar or null.
C8_EmptyPatch ==
    (Returned /\ mPatchDoc = Obj(EmptyFn)) =>
        ResultDoc = (IF mTargetDoc.t = "obj" THEN mTargetDoc ELSE Obj(EmptyFn))

\* The empty patch was merged into an object with nested content.
C8_Witness ==
    /\ Returned
    /\ mPatchDoc = Obj(EmptyFn)
    /\ mTargetDoc.t = "obj"
    /\ \E k \in DOMAIN mTargetDoc.o : mTargetDoc.o[k].t = "obj"
    /\ ResultDoc = mTargetDoc

\* Both inputs denote the documents they denoted before the call.
InputsUnchanged ==
    /\ Deref(heap, mTarget) = mTargetDoc
    /\ Deref(heap, mPatch) = mPatchDoc

\* The cells the result has in common with patch.
SharedWithPatch == Reach(heap, mResult) \cap Reach(heap, mPatch)

---------------------------------------------------------------------------
(* Properties of validateCapabilities, checked under SpecCaps *)

\* The fixed whitelist of a category, as a set.
WhitelistOf(category) ==
    LET list == CASE category = "general" -> GENERAL_CAPABILITIES
                  [] category = "device" -> DEVICE_CAPABILITIES
                  [] category = "restricted" -> RESTRICTED_CAPABILITIES
    IN {list[i] : i \in DOMAIN list}

\* The declarations of a CapabilitiesConfig: category and token.
Declarations(caps) ==
    UNION {{<<c, caps.o[c].a[i].s>> : i \in DOMAIN caps.o[c].a} : c \in DOMAIN caps.o}

\* The declarations whose token is not in the whitelist of its own category.
Violations(caps) == {d \in Declarations(caps) : d[2] \notin WhitelistOf(d[1])}

\* C10: validateCapabilities returns the empty list exactly when every token
\* declared under general, device and restricted is in the whitelist of the
\* category it is declared in; every token that is not (also one valid in
\* another category) is reported under its category, and nothing is reported
\* for an absent category or for a valid token.
C10_ValidIffWhitelisted ==
    vPc = "returned" =>
        /\ (vErrors = <<>>) <=> (Violations(vConfig) = {})
        /\ {<<vErrors[i].category, vErrors[i].cap>> : i \in DOMAIN vErrors}
               = Violations(vConfig)

\* A device token declared under general was reported, beside a valid token,
\* while another category was absent.
C10_Witness ==
    /\ vPc = "returned"
    /\ "general" \in DOMAIN vConfig.o
    /\ Includes(vConfig.o["general"].a, Str("webcam"))
    /\ Includes(vConfig.o["general"].a, Str("internetClient"))
    /\ "device" \notin DOMAIN vConfig.o
    /\ Len(vErrors) = 1 /\ vErrors[1].cap = "webcam" /\ vErrors[1].category = "general"

\* The invalid tokens declared under a category, in declaration order; none
\* when the category is absent.
InvalidIn(caps, category) ==
    IF category \in DOMAIN caps.o
    THEN LET tokens == [i \in DOMAIN caps.o[category].a |-> caps.o[category].a[i].s]
         IN SelectSeq(tokens, LAMBDA tok : tok \notin WhitelistOf(category))
    ELSE <<>>

\* The category and token each returned message names, in the order returned.
ReportedTokens == [i \in DOMAIN vErrors |-> <<vErrors[i].category, vErrors[i].cap>>]

\* A sequence of tokens, each paired with the category.
Under(category, tokens) == [i \in DOMAIN tokens |-> <<category, tokens[i]>>]

\* C11: the returned list has exactly one message per occurrence of an
\* invalid declared token: the general violations first, then the device
\* violations, then the restricted ones, each group in declaration order.
C11_EveryViolationInOrder ==
    vPc = "returned" =>
        ReportedTokens = Under("general", InvalidIn(vConfig, "general"))
                            \o Under("device", InvalidIn(vConfig, "device"))
                            \o Under("restricted", InvalidIn(vConfig, "restricted"))

\* Three violations were reported: two in one category around or beside a
\* valid token, and one in a later category.
C11_Witness ==
    /\ vPc = "returned"
    /\ Len(vErrors) = 3
    /\ vErrors[1].category = vErrors[2].category
    /\ vErrors[2].category # vErrors[3].category
    /\ vErrors[1].cap # vErrors[2].cap

---------------------------------------------------------------------------
(* Properties of the configuration resolution of build, checked under Spec *)

\* build has assembled the MergedConfig.
Resolved == config # Undef

\* The effective app config: tauri.conf.json, with tauri.windows.conf.json
\* deep-merged over it when that file exists.
EffectiveAppConfig ==
    IF disk.windowsConf = Missing THEN disk.tauriConf
    ELSE LET t == Alloc(<<>>, disk.tauriConf)
             p == Alloc(t.h, disk.windowsConf)
             r == jsonMergePatch(p.h, t.v, p.v)
         IN Deref(r.h, r.v)

\* s contains sub.
Contains(s, sub) ==
    \E i \in 1..(Len(s) - Len(sub) + 1) : SubSeq(s, i, i + Len(sub) - 1) = sub

\* An error line containing text was written.
Reported(text) ==
    \E i \in DOMAIN console : console[i].stream = "error" /\ Contains(console[i].text, text)

\* The capabilities of bundle.config.json pass validation, or there are none.
CapabilitiesAccepted ==
    LET capabilities == Field(bundleConfig, "capabilities")
    IN Truthy(capabilities) => Violations(capabilities) = {}

\* C1: the publisher of bundle.config.json is used when there is one, also
\* when the effective app config has a bundle.publisher; without it the
\* bundle.publisher of the effective app config is used; when both are absent
\* no MergedConfig and no manifest is produced and the process exits with
\* code 1 on the "Publisher is required" error.
C1_PublisherChain ==
    LET packaged == Field(bundleConfig, "publisher")
        app == Field(Field(EffectiveAppConfig, "bundle"), "publisher")
    IN /\ (Resolved /\ Truthy(packaged)) => Field(config, "publisher") = packaged
       /\ (Resolved /\ ~Truthy(packaged) /\ Truthy(app))
             => Field(config, "publisher") = app
       /\ (bundleConfig # Undef /\ CapabilitiesAccepted
              /\ ~Truthy(packaged) /\ ~Truthy(app))
             => /\ ~Resolved
                /\ manifests = <<>>
                /\ \/ bPc \in {"validate", "merge"}
                   \/ /\ bPc = "exited" /\ exitCode = Num(1)
                      /\ Reported("Publisher is required")

\* C2: every MergedConfig handed to manifest generation, and every manifest
\* generated from it, has a non-empty publisher and a non-empty
\* publisherDisplayName.
C2_PublisherNonEmpty ==
    /\ Resolved => /\ Truthy(Field(config, "publisher"))
                   /\ Truthy(Field(config, "publisherDisplayName"))
    /\ \A i \in DOMAIN manifests :
          /\ Truthy(manifests[i].PUBLISHER)
          /\ Truthy(manifests[i].PUBLISHER_DISPLAY_NAME)

\* C3: the resolved publisherDisplayName is the one of bundle.config.json
\* when it has one and the resolved publisher otherwise, and every manifest
\* carries the resolved value.
C3_DisplayNameFallback ==
    Resolved =>
        LET packaged == Field(bundleConfig, "publisherDisplayName")
        IN /\ Field(config, "publisherDisplayName")
                 = (IF packaged # Undef THEN packaged ELSE Field(config, "publisher"))
           /\ Field(config, "publisherDisplayName") # Undef
           /\ \A i \in DOMAIN manifests :
                 manifests[i].PUBLISHER_DISPLAY_NAME
                     = Field(config, "publisherDisplayName")

\* C4: when tauri.windows.conf.json exists, the MergedConfig is the one
\* resolved from the deep merge of tauri.windows.conf.json over
\* tauri.conf.json.
C4_OverrideMerged ==
    (Resolved /\ disk.windowsConf # Missing)
        => config = MergeConfig(EffectiveAppConfig, bundleConfig)

\* The value of a field of the effective app config, or the default when the
\* effective app config omits the field.
EffectiveOr(key, default) ==
    IF Field(EffectiveAppConfig, key) = Undef THEN default
    ELSE Field(EffectiveAppConfig, key)

\* C14: the MergedConfig has the product name, version (in four-segment
\* form) and identifier of the effective app config when it has them, and
\* the defaults "App", "1.0.0.0" and "com.example.app" for those it omits.
C14_DefaultsApplied ==
    Resolved =>
        /\ Field(config, "displayName") = EffectiveOr("productName", Str("App"))
        /\ Field(config, "version")
              = Str(toFourPartVersion(EffectiveOr("version", Str("1.0.0")).s))
        /\ Field(config, "version") = Str("1.0.0.0")
              \/ Field(EffectiveAppConfig, "version") # Undef
        /\ Field(config, "identifier")
              = EffectiveOr("identifier", Str("com.example.app"))

\* C15: the description of the MergedConfig is the bundle.shortDescription
\* of the effective app config when it has one, and the resolved displayName
\* otherwise; it is never the empty string.
C15_DescriptionFallback ==
    Resolved =>
        LET short == Field(Field(EffectiveAppConfig, "bundle"), "shortDescription")
        IN /\ Field(config, "description")
                 = (IF Truthy(short) THEN short ELSE Field(config, "displayName"))
           /\ Field(config, "description") # Str("")

---------------------------------------------------------------------------
(* Properties of the steps of build, checked under Spec *)

\* The error lines written so far.
ErrorLines == SelectSeq(console, LAMBDA line : line.stream = "error")

\* The violations of the capabilities of bundle.config.json, in the order
\* general, device, restricted and in declaration order within each.
DeclaredViolations ==
    LET capabilities == Field(bundleConfig, "capabilities")
    IN Under("general", InvalidIn(capabilities, "general"))
           \o Under("device", InvalidIn(capabilities, "device"))
           \o Under("restricted", InvalidIn(capabilities, "restricted"))

\* No Tauri build command and no packaging run of msixbundle-cli was started,
\* and no AppxContent directory or manifest was prepared.
NothingBuilt ==
    /\ \A i \in DOMAIN commands :
          /\ ~Contains(commands[i], "tauri build")
          /\ ~Contains(commands[i], "--out-dir")
    /\ manifests = <<>>
    /\ appxDirs = <<>>

\* C12: when bundle.config.json declares a capability token outside the
\* whitelist of its category, build gets no further than the validation: it
\* writes the heading and one line per violation, exits with code 1, and has
\* run no Tauri build command, prepared no AppxContent or manifest and not
\* run msixbundle-cli to package; when bundle.config.json has no capabilities
\* nothing is reported about capabilities and build goes on to assemble the
\* MergedConfig.
C12_InvalidCapabilitiesStopBuild ==
    bundleConfig # Undef =>
        LET capabilities == Field(bundleConfig, "capabilities")
        IN /\ (Truthy(capabilities) /\ Violations(capabilities) # {}) =>
                 /\ bPc \in {"validate", "exited"}
                 /\ NothingBuilt
                 /\ bPc = "exited" =>
                       /\ exitCode = Num(1)
                       /\ Len(ErrorLines) = 1 + Len(DeclaredViolations)
                       /\ ErrorLines[1].text = "Invalid capabilities in bundle.config.json:"
                       /\ \A i \in DOMAIN DeclaredViolations :
                             Contains(ErrorLines[i + 1].text,
                                      "Invalid " \o DeclaredViolations[i][1]
                                          \o " capability: \"" \o DeclaredViolations[i][2]
                                          \o "\"")
           /\ capabilities = Undef =>
                 /\ ~Reported("Invalid")
                 /\ bPc \notin {"validate", "merge"} => Resolved

\* build exited on three capability violations in two categories.
C12_Witness ==
    /\ bPc = "exited" /\ exitCode = Num(1)
    /\ bundleConfig # Undef
    /\ Len(DeclaredViolations) = 3
    /\ DeclaredViolations[1][1] # DeclaredViolations[3][1]
    /\ Len(ErrorLines) = 4
    /\ NothingBuilt

\* The numbers of a version of three dot-separated decimal numbers.
Numbers(text) == LET parts == Split(text, ".") IN [i \in 1..3 |-> parseInt(parts[i]).n]

\* (major, minor, patch) of a is at least that of b in lexicographic order.
LexGe(a, b) ==
    \/ a[1] > b[1]
    \/ a[1] = b[1] /\ a[2] > b[2]
    \/ a[1] = b[1] /\ a[2] = b[2] /\ a[3] >= b[3]

\* build looked for the project, read a config, or went further.
ProjectTouched ==
    \/ bPc \in {"read", "validate", "merge", "build", "prepare", "msix", "done"}
    \/ tauriConfig # Undef \/ bundleConfig # Undef \/ config # Undef
    \/ ~NothingBuilt
    \/ Reported("project root") \/ Reported(".json")

\* The install hint was written: the user declined the install or the
\* install failed.
HintWritten ==
    \E i \in DOMAIN console : Contains(console[i].text, "Install manually")

\* msixbundle-cli --version gave a version that is at least the minimum.
VersionAccepted ==
    /\ cliVersion.t = "str"
    /\ LexGe(Numbers(cliVersion.s), Numbers(MIN_MSIXBUNDLE_CLI_VERSION))

\* C23: build looks for the project, reads configs and runs Tauri build and
\* packaging commands only when msixbundle-cli is installed (already, or by
\* an install that did not fail) and its version was determined and is at
\* least MIN_MSIXBUNDLE_CLI_VERSION; after a declined or failed install, an
\* undetermined version or a version too old, build has exited with code 1
\* without any of that.
C23_CliGate ==
    /\ ProjectTouched => VersionAccepted /\ ~HintWritten
    /\ (HintWritten \/ (cliVersion # Undef /\ ~VersionAccepted)) =>
          /\ bPc = "exited" /\ exitCode = Num(1)
          /\ ~ProjectTouched
    /\ (\E i \in DOMAIN commands : commands[i] = "cargo install msixbundle-cli") =>
          commands[2] = "cargo install msixbundle-cli"

\* build finished after it installed msixbundle-cli and found version 1.2.0.
C23_Witness ==
    /\ bPc = "done"
    /\ commands[2] = "cargo install msixbundle-cli"
    /\ cliVersion = Str("1.2.0")
    /\ ~NothingBuilt

\* The Tauri build commands and the packaging commands run so far.
BuildCommands == SelectSeq(commands, LAMBDA c : Contains(c, "tauri build"))
PackagingCommands == SelectSeq(commands, LAMBDA c : Contains(c, "--out-dir"))

\* The architectures requested on the command line, x64 by default.
Requested ==
    IF options.arch = Undef THEN <<"x64">> ELSE Split(options.arch.s, ",")

\* The --dir arguments of the directories prepared for the architectures
\* requested, in request order.
RequestedDirs ==
    Join([k \in DOMAIN Requested |->
             "--dir-" \o Requested[k] \o " /project/src-tauri/target/appx/" \o Requested[k]],
         " ")

\* C24: the architectures are processed one at a time in request order, the
\* Tauri build of each before its AppxContent is prepared and before the
\* next one starts; msixbundle-cli packages once, after all of them were
\* built and prepared, with the directories in request order; after a failed
\* Tauri build the process has exited with code 1 without packaging.
C24_ArchitecturesInOrder ==
    Resolved =>
        /\ architectures = Requested
        /\ Len(BuildCommands) <= Len(Requested)
        /\ \A k \in DOMAIN BuildCommands :
              Contains(BuildCommands[k],
                       IF Requested[k] = "x64" THEN "x86_64-pc-windows-msvc"
                       ELSE "aarch64-pc-windows-msvc")
        /\ Len(appxDirs) <= Len(BuildCommands)
        /\ Len(BuildCommands) <= Len(appxDirs) + 1
        /\ \A k \in DOMAIN appxDirs : appxDirs[k].arch = Requested[k]
        /\ Len(manifests) = Len(appxDirs)
        /\ Len(PackagingCommands) <= 1
        /\ Len(PackagingCommands) = 1 =>
              /\ Len(appxDirs) = Len(Requested)
              /\ Len(BuildCommands) = Len(Requested)
              /\ commands[Len(commands)] = PackagingCommands[1]
              /\ Contains(PackagingCommands[1], RequestedDirs)
        /\ bPc = "done" => Len(PackagingCommands) = 1
        /\ Reported("Failed to build for") =>
              /\ bPc = "exited" /\ exitCode = Num(1)
              /\ Len(PackagingCommands) = 0
              /\ Len(appxDirs) = Len(BuildCommands) - 1

\* build packaged the directories of arm64 and x64, in that order.
C24_Witness ==
    /\ bPc = "done"
    /\ Requested = <<"arm64", "x64">>
    /\ Len(BuildCommands) = 2 /\ Len(appxDirs) = 2
    /\ Len(PackagingCommands) = 1

\* The packaging command has the argument flag, and has it with value.
HasFlag(flag) == Contains(PackagingCommands[1] \o " ", " " \o flag \o " ")
HasValue(flag, value) ==
    Contains(PackagingCommands[1] \o " ", " " \o flag \o " " \o value.s \o " ")

\* What the documents and the environment configure for signing.
ConfiguredPfx == Field(Field(bundleConfig, "signing"), "pfx")
ConfiguredPassword == Field(Field(bundleConfig, "signing"), "pfxPassword")
ConfiguredThumbprint ==
    Field(Field(Field(tauriConfig, "bundle"), "windows"), "certificateThumbprint")

\* C25: msixbundle-cli gets --pfx with the configured path whenever
\* signing.pfx is configured, with --pfx-password from signing.pfxPassword,
\* else from MSIX_PFX_PASSWORD, and without --pfx-password when neither is
\* set; it gets --thumbprint from certificateThumbprint only when no pfx is
\* configured; never both, and no signing argument when nothing is configured.
C25_SigningArguments ==
    Len(PackagingCommands) = 1 =>
        /\ ~(HasFlag("--pfx") /\ HasFlag("--thumbprint"))
        /\ ConfiguredPfx # Undef =>
              /\ HasValue("--pfx", ConfiguredPfx)
              /\ ~HasFlag("--thumbprint")
              /\ ConfiguredPassword # Undef =>
                    HasValue("--pfx-password", ConfiguredPassword)
              /\ ConfiguredPassword = Undef /\ procEnv.MSIX_PFX_PASSWORD # Undef =>
                    HasValue("--pfx-password", procEnv.MSIX_PFX_PASSWORD)
              /\ ConfiguredPassword = Undef /\ procEnv.MSIX_PFX_PASSWORD = Undef =>
                    ~HasFlag("--pfx-password")
        /\ ConfiguredPfx = Undef =>
              /\ ~HasFlag("--pfx") /\ ~HasFlag("--pfx-password")
              /\ ConfiguredThumbprint # Undef =>
                    HasValue("--thumbprint", ConfiguredThumbprint)
              /\ ConfiguredThumbprint = Undef => ~HasFlag("--thumbprint")

\* A pfx without a configured password took the password of the
\* environment, although a thumbprint was configured too.
C25_Witness ==
    /\ Len(PackagingCommands) = 1
    /\ ConfiguredPfx = Str("cert.pfx") /\ ConfiguredPassword = Undef
    /\ ConfiguredThumbprint = Str("ABC123")
    /\ HasValue("--pfx-password", Str("env-secret"))
    /\ ~HasFlag("--thumbprint")

\* The lines of a text: the pieces between its line feeds.
LinesOf(text) ==
    LET feeds == {i \in 1..Len(text) : Char(text, i) = "\n"}
        feed(k) == IF k = 0 THEN 0
                   ELSE IF k > Cardinality(feeds) THEN Len(text) + 1
                   ELSE CHOOSE i \in feeds : Cardinality({j \in feeds : j < i}) = k - 1
    IN [k \in 1..(Cardinality(feeds) + 1) |->
           SubSeq(text, feed(k - 1) + 1, feed(k) - 1)]

\* The runFullTrust element of a capability block.
RunFullTrust == "    <rescap:Capability Name=\"runFullTrust\" />"

\* How many lines of a manifest's capability block are that element.
RunFullTrustCount(manifest) ==
    LET lines == LinesOf(manifest.CAPABILITIES.s)
    IN Cardinality({k \in DOMAIN lines : lines[k] = RunFullTrust})

\* bundle.config.json declares the token in one of the three lists.
Declares(token) ==
    \E category \in {"general", "device", "restricted"} :
        LET list == Field(Field(bundleConfig, "capabilities"), category)
        IN list # Undef /\ \E i \in DOMAIN list.a : list.a[i] = Str(token)

\* C28: the capability block of every manifest build generates contains the
\* runFullTrust element exactly once; a packaging config that declares
\* runFullTrust is rejected, so no manifest is generated from it.
C28_RunFullTrustOnce ==
    /\ \A k \in DOMAIN manifests : RunFullTrustCount(manifests[k]) = 1
    /\ bundleConfig # Undef /\ Declares("runFullTrust") => manifests = <<>>

\* A manifest was generated from a config that declares a restricted
\* capability of its own.
C28_Witness ==
    /\ Len(manifests) = 2
    /\ Declares("broadFileSystemAccess")
    /\ Len(LinesOf(manifests[2].CAPABILITIES.s)) = 2
    /\ RunFullTrustCount(manifests[2]) = 1

\* The four fields build resolves from the app config.
ResolvedKeys == {"displayName", "version", "description", "identifier"}

\* C29: displayName, version, description and identifier of the MergedConfig
\* are determined by the app config alone: they are what build resolves from
\* the app config it read when the packaging config carries no key at all,
\* whatever keys bundle.config.json carries; version has four segments.
C29_AppConfigAlone ==
    Resolved =>
        /\ \A key \in ResolvedKeys :
              Field(config, key) = Field(MergeConfig(tauriConfig, Obj(<<>>)), key)
        /\ Len(Split(Field(config, "version").s, ".")) = 4

---------------------------------------------------------------------------
(* Properties of isVersionSufficient, checked under SpecSufficient *)

\* C27: isVersionSufficient is true exactly when the (major, minor, patch)
\* triple of version is at least that of minVersion in lexicographic order.
C27_LexicographicOrder ==
    fPc = "returned" =>
        fResult = Bool(LexGe(Numbers(fArgs.version), Numbers(fArgs.minVersion)))

\* A smaller major lost although minor and patch are larger, and a larger
\* minor of two digits won: the segments are compared as numbers.
C27_Witness ==
    /\ fPc = "returned"
    /\ \/ fArgs = [version |-> "0.9.12", minVersion |-> "1.1.4"] /\ fResult = Bool(FALSE)
       \/ fArgs = [version |-> "1.10.0", minVersion |-> "1.9.4"] /\ fResult = Bool(TRUE)

---------------------------------------------------------------------------
(* Properties of the readers of the input documents, under SpecReaders *)

\* The name of the file a reader looks for.
FileName ==
    CASE fArgs.reader = "readTauriConfig" -> "tauri.conf.json"
      [] fArgs.reader = "readTauriWindowsConfig" -> "tauri.windows.conf.json"
      [] fArgs.reader = "readBundleConfig" -> "bundle.config.json"
      [] fArgs.reader = "getManifestTemplate" -> "AppxManifest.xml.template"

\* The path a reader looks at.
ExpectedPath ==
    IF fArgs.reader \in {"readTauriConfig", "readTauriWindowsConfig"}
    THEN fArgs.dir \o "/src-tauri/" \o FileName
    ELSE fArgs.dir \o "/" \o FileName

\* The call failed with an Error whose message contains the text.
FailedWith(text) == fResult.t = "error" /\ Contains(fResult.message, text)

\* A missing override is no error, and a malformed document is a fatal
\* error that wraps the parse error and names the document; a file that is
\* there and well-formed is returned.
ReaderOutcomes ==
    /\ fArgs.reader = "readTauriWindowsConfig" /\ fArgs.file = Missing => fResult = Null
    /\ fArgs.reader # "getManifestTemplate" /\ fArgs.file = Malformed =>
          /\ FailedWith(ParseError)
          /\ FailedWith("Failed to parse " \o FileName \o ": ")
    /\ fArgs.file # Missing
          /\ (fArgs.file # Malformed \/ fArgs.reader = "getManifestTemplate") =>
          fResult = fArgs.file

\* C22 as stated: a missing override is no error; a missing packaging config
\* or manifest template is a fatal error reported with the exact expected
\* path; a parse failure in any of the three documents is a fatal error that
\* wraps the parse error and names the document.
C22_AsStated ==
    fPc = "returned" =>
        /\ ReaderOutcomes
        /\ fArgs.reader \in {"readBundleConfig", "getManifestTemplate"}
              /\ fArgs.file = Missing =>
              FailedWith(ExpectedPath)

\* C22, amended: a missing manifest template is reported with the exact
\* expected path; a missing packaging config is reported by the fixed message
\* that names the document and the init command, without a path.
C22_LoadOutcomes ==
    fPc = "returned" =>
        /\ ReaderOutcomes
        /\ fArgs.reader = "getManifestTemplate" /\ fArgs.file = Missing =>
              FailedWith(ExpectedPath)
        /\ fArgs.reader = "readBundleConfig" /\ fArgs.file = Missing =>
              /\ fResult.t = "error"
              /\ fResult.message
                    = "bundle.config.json not found. Run 'tauri-windows-bundle init' first."
              /\ ~FailedWith(fArgs.dir)

\* readBundleConfig found no bundle.config.json in the windows directory and
\* failed with the message that carries no path.
C22_Witness ==
    /\ fPc = "returned"
    /\ fArgs.reader = "readBundleConfig" /\ fArgs.file = Missing
    /\ fArgs.dir = "/work/app/src-tauri/gen/windows"
    /\ fResult
          = Thrown("bundle.config.json not found. Run 'tauri-windows-bundle init' first.")

---------------------------------------------------------------------------
(* Properties of the Spinner, checked under SpecSpinner *)

\* The last text written is the final status line of the call.
StatusWritten ==
    lastWrite = [symbol |-> IF lastCall = "stop" THEN 10003 ELSE 10007,
                 message |-> spinner.message]

\* C30: after stop() or fail() returned, and until start() is called again,
\* no interval timer of the spinner is active and no further frame is
\* written: the last text written is the final status line, also when the
\* spinner was never started; frameIndex stays within SPINNER_FRAMES.
C30_StoppedSpinnerIsQuiet ==
    /\ spinner.frameIndex \in 0..(Len(SPINNER_FRAMES) - 1)
    /\ lastCall \in {"stop", "fail"} => timers = {} /\ StatusWritten

---------------------------------------------------------------------------
(* Properties of execWithProgress, checked under SpecExec *)

\* What the first event of the child makes of the promise.
Outcome(event) ==
    IF event.type = "error" THEN [state |-> "rejected", reason |-> event.error]
    ELSE IF event.code = 0 THEN [state |-> "fulfilled"]
    ELSE [state |-> "rejected",
          reason |-> [t |-> "error",
                      message |-> "Command failed with exit code "
                                     \o ToString(event.code)]]

\* The handler of the last event of the child wrote the mark of its outcome.
MarkWritten ==
    LET last == child[Len(child)]
    IN lastWrite.symbol = IF last.type = "close" /\ last.code = 0 THEN 10003 ELSE 10007

\* C26: the promise is pending until the child emits an event and is then
\* settled once and for all: fulfilled by a close with exit code 0, rejected
\* with "Command failed with exit code N" by a close with code N, rejected
\* with the spawn error by an error event; once it is settled, a spinner that
\* was started is stopped, with the success mark on exit 0 and the failure
\* mark otherwise, and no interval timer is active.
C26_SettlesOnce ==
    /\ [](/\ child = <<>> => promise.state = "pending"
          /\ child # <<>> =>
                /\ promise = Outcome(child[1])
                /\ timers = {}
                /\ spinner # Null => spinner.intervalId = Null /\ MarkWritten)
    /\ [][promise.state # "pending" => promise' = promise]_vars

\* A spinner that had animated was stopped with the failure mark when the
\* child closed with exit code 2, and the promise is rejected.
C26_Witness ==
    /\ child = <<[type |-> "close", code |-> 2]>>
    /\ promise = [state |-> "rejected",
                  reason |-> Thrown("Command failed with exit code 2")]
    /\ spinner # Null /\ spinner.frameIndex > 0
    /\ lastWrite.symbol = 10007
    /\ timers = {}

---------------------------------------------------------------------------
(* Properties of generateManifest, checked under SpecManifest *)

---------------------------------------------------------------------------
(* Properties of toFourPartVersion, checked under SpecVersion *)

\* The first four segments of the input, padded with "0" segments.
FourSegments(segments) ==
    [i \in 1..4 |-> IF i <= Len(segments) THEN segments[i] ELSE "0"]

\* A segment is numeric: not empty and digits only.
IsNumeric(segment) ==
    /\ Len(segment) > 0
    /\ \A i \in 1..Len(segment) : IsDigit(Char(segment, i))

\* C13 as stated: for every version string the result is four dot-separated
\* numeric segments, the first four of the input padded with "0".
C13_AsStated ==
    fPc = "returned" =>
        /\ fResult = Str(Join(FourSegments(fArgs.segments), "."))
        /\ \A i \in 1..4 : IsNumeric(FourSegments(fArgs.segments)[i])

\* C13 amended: for every version string the result is exactly four
\* dot-separated segments: the first four segments of the input in order and
\* unchanged, padded with trailing "0" segments when the input has fewer than
\* four, the segments beyond the fourth dropped; the four segments are
\* numeric when the first four segments of the input are.
C13_FourSegments ==
    fPc = "returned" =>
        /\ fResult = Str(Join(FourSegments(fArgs.segments), "."))
        /\ (\A i \in 1..Len(fArgs.segments) : i <= 4 => IsNumeric(fArgs.segments[i]))
              => \A i \in 1..4 : IsNumeric(FourSegments(fArgs.segments)[i])

\* "1.0" gave "1.0.0.0".
C13_Witness ==
    /\ fPc = "returned"
    /\ fArgs.version = "1.0"
    /\ fResult = Str("1.0.0.0")

---------------------------------------------------------------------------
(* Properties of generateCapabilities.                                     *)

\* The tokens of a category of the CapabilitiesConfig handed to
\* generateCapabilities, none when the category is absent.
DeclaredIn(category) ==
    LET list == Field(fArgs.config, category)
    IN IF list = Undef THEN <<>> ELSE list.a

\* The element of one capability.
Element(tag, token) == "    <" \o tag \o " Name=\"" \o token.s \o "\" />"

\* The lines of the block generateCapabilities returned.
BlockLines == LinesOf(fResult.s)

\* C16: the capability block is the runFullTrust element, then a Capability
\* element per general token, a DeviceCapability element per device token
\* and a rescap:Capability element per restricted token, each group in
\* declaration order; an empty CapabilitiesConfig gives the runFullTrust
\* element alone.
C16_BlockOrder ==
    fPc = "returned" =>
        LET g == DeclaredIn("general")
            d == DeclaredIn("device")
            r == DeclaredIn("restricted")
        IN /\ Len(BlockLines) = 1 + Len(g) + Len(d) + Len(r)
           /\ BlockLines[1] = "    <rescap:Capability Name=\"runFullTrust\" />"
           /\ \A i \in 1..Len(g) : BlockLines[1 + i] = Element("Capability", g[i])
           /\ \A i \in 1..Len(d) :
                 BlockLines[1 + Len(g) + i] = Element("DeviceCapability", d[i])
           /\ \A i \in 1..Len(r) :
                 BlockLines[1 + Len(g) + Len(d) + i] = Element("rescap:Capability", r[i])
           /\ (fArgs.config = Obj(EmptyFn) =>
                 fResult.s = "    <rescap:Capability Name=\"runFullTrust\" />")

\* A block was rendered for a config declaring tokens of all three categories.
C16_Witness ==
    /\ fPc = "returned"
    /\ Len(DeclaredIn("general")) > 0
    /\ Len(DeclaredIn("device")) > 0
    /\ Len(DeclaredIn("restricted")) > 0
    /\ Len(BlockLines) = 4

---------------------------------------------------------------------------
(* Properties of generateClsid.                                             *)

\* The 32-bit hash of the seed handed to generateClsid.
SeedHash == HashFrom(fArgs.seed, 1, Int32(0, 0))

\* The positions of the hyphens of a braced identifier of 38 characters.
Hyphens == {10, 15, 20, 25}

\* {8 hex}-{4 hex}-{4 hex}-{4 hex}-{12 hex}, upper case.
IsClsid(text) ==
    /\ Len(text) = 38
    /\ Char(text, 1) = "{"
    /\ Char(text, 38) = "}"
    /\ \A i \in Hyphens : Char(text, i) = "-"
    /\ \A i \in (2..37) \ Hyphens :
          \E k \in 1..16 : Char(text, i) = Char("0123456789ABCDEF", k)

\* C20: for every seed, the empty one and those with a negative hash or the
\* hash -2^31 included, generateClsid returns a braced upper-case identifier
\* of the shape 8-4-4-4-12 of hexadecimal digits, and a second call on the
\* same seed returns the same string.
C20_ClsidShape ==
    /\ [](fPc # "ready" => IsClsid(fResult.s))
    /\ [][fPc = "returned" => fResult' = fResult]_vars

\* generateClsid returned, twice, for a seed whose hash is -2^31.
C20_Witness ==
    /\ fPc = "repeated"
    /\ fArgs.seed = "GydZG_"
    /\ SeedHash = [hi |-> 32768, lo |-> 0]
    /\ fResult = Str("{80000000-F800-0000-1280-001480000000}")

---------------------------------------------------------------------------
(* Properties of generateExtensions.                                        *)

\* The extensions of the config handed to generateExtensions.
Declared(key) == Field(Field(fArgs.config, "extensions"), key)

\* The entries of a list-valued extension kind, none when it is absent.
Entries(key) == IF Declared(key).t = "arr" THEN Declared(key).a ELSE <<>>

\* The fragments inside the wrapper generateExtensions returned, none when
\* it returned a string.
Emitted == IF fResult.t = "xml" THEN fResult.fragments ELSE <<>>

\* The list-valued kinds that give one fragment per entry.
ListKinds ==
    {"fileAssociations", "protocolHandlers", "contextMenus", "backgroundTasks",
     "appExecutionAliases", "appServices", "thumbnailHandlers", "previewHandlers"}

\* The event types of an autoplay handler.
EventTypes == {"contentEvent", "deviceEvent"}

\* The kind of the config produces a fragment.
Produces(key) ==
    CASE key = "shareTarget" -> Declared(key) = Bool(TRUE)
      [] key = "startupTask" -> Field(Declared(key), "enabled") = Bool(TRUE)
      [] key \in {"toastActivation", "printTaskSettings"} -> Declared(key) # Undef
      [] key = "autoplayHandlers" ->
            \E i \in 1..Len(Entries(key)) : \E e \in EventTypes :
                Field(Entries(key)[i], e) # Undef
      [] OTHER -> Len(Entries(key)) > 0

AllKinds == ListKinds \cup {"shareTarget", "startupTask", "toastActivation",
                            "autoplayHandlers", "printTaskSettings"}

\* C17: generateExtensions returns the empty string, and no wrapper, when no
\* kind produces a fragment (extensions absent, fields absent or falsy,
\* empty lists, a disabled startupTask, autoplay handlers without an event),
\* and a wrapper exactly when at least one fragment is produced.
C17_EmptyWithoutFragments ==
    fPc = "returned" =>
        IF \E key \in AllKinds : Produces(key)
        THEN fResult.t = "xml" /\ Len(fResult.fragments) > 0
        ELSE fResult = Str("")

\* generateExtensions returned the empty string for a config that declares a
\* disabled startupTask and an autoplay handler without an event.
C17_Witness ==
    /\ fPc = "returned"
    /\ Declared("startupTask") = Doc([enabled |-> Bool(FALSE)])
    /\ Len(Entries("autoplayHandlers")) = 1
    /\ fResult = Str("")

\* The place of a template in the fixed order of the kinds.
KindRank(template) ==
    CASE template = "share-target" -> 1
      [] template = "file-association" -> 2
      [] template = "protocol" -> 3
      [] template = "startup-task" -> 4
      [] template = "context-menu" -> 5
      [] template = "background-task" -> 6
      [] template = "app-execution-alias" -> 7
      [] template = "app-service" -> 8
      [] template = "toast-activation" -> 9
      [] template \in {"autoplay", "autoplay-device"} -> 10
      [] template = "print-task-settings" -> 11
      [] template = "thumbnail-handler" -> 12
      [] template = "preview-handler" -> 13

\* The emitted fragments of the given templates, in the order emitted.
EmittedOf(templates) == SelectSeq(Emitted, LAMBDA f : f.template \in templates)

\* The fragments of a list-valued kind follow the entries of its list: the
\* j-th fragment carries, in the given variable, the given field of entry j.
FollowsList(key, template, variable, field) ==
    LET fragments == EmittedOf({template})
    IN /\ Len(fragments) = Len(Entries(key))
       /\ \A j \in 1..Len(fragments) :
             fragments[j].variables[variable] = Field(Entries(key)[j], field)

\* What the autoplay handlers give: per entry, in list order, the content
\* event fragment and then the device event fragment, each with its verb.
AutoplayExpected ==
    Flatten([j \in 1..Len(Entries("autoplayHandlers")) |->
        LET handler == Entries("autoplayHandlers")[j]
        IN (IF Field(handler, "contentEvent") # Undef
            THEN <<[template |-> "autoplay", verb |-> Field(handler, "verb")]>>
            ELSE <<>>)
           \o (IF Field(handler, "deviceEvent") # Undef
               THEN <<[template |-> "autoplay-device", verb |-> Field(handler, "verb")]>>
               ELSE <<>>)])

\* C18: the fragments appear in the fixed order of the kinds; within a
\* list-valued kind they follow the entries of the list, and the content
\* event fragment of an autoplay entry precedes its device event fragment.
C18_FixedKindOrder ==
    fPc = "returned" =>
        /\ \A i \in 1..Len(Emitted) : \A j \in i..Len(Emitted) :
              KindRank(Emitted[i].template) <= KindRank(Emitted[j].template)
        /\ FollowsList("fileAssociations", "file-association", "NAME", "name")
        /\ FollowsList("protocolHandlers", "protocol", "NAME", "name")
        /\ FollowsList("contextMenus", "context-menu", "NAME", "name")
        /\ FollowsList("backgroundTasks", "background-task", "ENTRY_POINT", "name")
        /\ FollowsList("appServices", "app-service", "NAME", "name")
        /\ FollowsList("thumbnailHandlers", "thumbnail-handler", "CLSID", "clsid")
        /\ FollowsList("previewHandlers", "preview-handler", "CLSID", "clsid")
        /\ LET aliases == EmittedOf({"app-execution-alias"})
           IN /\ Len(aliases) = Len(Entries("appExecutionAliases"))
              /\ \A j \in 1..Len(aliases) :
                    LET alias == Field(Entries("appExecutionAliases")[j], "alias").s
                    IN aliases[j].variables.ALIAS \in {Str(alias), Str(alias \o ".exe")}
        /\ LET autoplay == EmittedOf({"autoplay", "autoplay-device"})
           IN [j \in 1..Len(autoplay) |->
                  [template |-> autoplay[j].template, verb |-> autoplay[j].variables.VERB]]
              = AutoplayExpected

\* generateExtensions returned for file associations in the order other,
\* myfile and autoplay handlers of which the first carries both events.
C18_Witness ==
    /\ fPc = "returned"
    /\ Len(Entries("fileAssociations")) = 2
    /\ Field(Entries("fileAssociations")[1], "name") = Str("other")
    /\ Len(Entries("autoplayHandlers")) = 3
    /\ Len(Emitted) = 5
    /\ Emitted[3].template = "autoplay" /\ Emitted[4].template = "autoplay-device"

RECURSIVE Sum(_, _)
\* The sum of f over the set S.
Sum(f, S) ==
    IF S = {} THEN 0 ELSE LET x == CHOOSE y \in S : TRUE IN f[x] + Sum(f, S \ {x})

\* The number of fragments the declared extensions call for.
ExpectedCount ==
    (IF Declared("shareTarget") = Bool(TRUE) THEN 1 ELSE 0)
    + (IF Field(Declared("startupTask"), "enabled") = Bool(TRUE) THEN 1 ELSE 0)
    + (IF Declared("toastActivation") # Undef THEN 1 ELSE 0)
    + (IF Declared("printTaskSettings") # Undef THEN 1 ELSE 0)
    + Sum([key \in ListKinds |-> Len(Entries(key))], ListKinds)
    + Cardinality({<<j, e>> \in (1..Len(Entries("autoplayHandlers"))) \X EventTypes :
                      Field(Entries("autoplayHandlers")[j], e) # Undef})

\* C19: the number of fragments is 1 for shareTarget true, 1 for an enabled
\* startupTask, 1 for toastActivation, 1 for printTaskSettings, the number
\* of entries of each of the eight list-valued kinds, and one per event type
\* each autoplay handler carries.
C19_FragmentCount == fPc = "returned" => Len(Emitted) = ExpectedCount

\* generateExtensions returned for two context menus and an autoplay list
\* whose handlers carry three events in all.
C19_Witness ==
    /\ fPc = "returned"
    /\ Len(Entries("contextMenus")) = 2
    /\ Len(Entries("autoplayHandlers")) = 3
    /\ ExpectedCount = 5
    /\ Len(Emitted) = 5

===========================================================================
